---- MODULE Spec2Model ----
(***************************************************************************)
(* A model of the core of sbak: the content-addressed object store, the    *)
(* bank's history files, the incremental scanner and the restorer.         *)
(*                                                                         *)
(* Bytes are sequences of integers (character codes).  An object that      *)
(* holds the JSON of an entry is kept as the decoded record, tagged with   *)
(* its format, so that parsing it back is a check of the tag.              *)
(***************************************************************************)
EXTENDS Integers, Sequences, FiniteSets, TLC

VARIABLES
    objects,      \* objects/ of the repository: HashID -> content of the object file
    wr,           \* each concurrent caller of save_object: its position and operands
    opened,       \* the result of the last open_object call
    sealed,       \* the ids whose object file cannot be created: PermissionDenied
    histFiles,    \* history/ of the bank: epoch second -> content of <epoch>.history.json
    lastScanFile, \* last_scan.json of the bank: << >> when absent, else <<content>>
    sh,           \* the running save_history call: its position and operands
    calls,        \* the save_history calls that returned Ok, oldest first
    listed,       \* the last histories() or find_hash() call: its operands and result
    fs,           \* the bank's target tree: path -> node
    clock,        \* the wall clock, in epoch seconds
    edits,        \* how many changes were made to the target tree
    run,          \* what the last backup's scan did
    target,       \* the tree restore writes into: path -> node
    rt,           \* what the last restore and the rescan of its target did
    call          \* the last call of a function of the ignore engine: operands, result

vars == <<objects, wr, opened, sealed, histFiles, lastScanFile, sh, calls, listed, fs, clock, edits,
          run, target, rt, call>>

(***************************************************************************)
(* Bounds of the model.                                                    *)
(***************************************************************************)
MaxLen == 2          \* longest object body written by a save_object caller
MaxClock == 2        \* last epoch second a save_history call is given
MaxTicks == 1        \* seconds the clock moves on while the target tree is watched
JsonChunks == 2      \* write calls to_writer needs for one history record
MaxCalls == 3        \* save_history calls in one behaviour
MaxEdits == 2        \* changes made to the target tree in one behaviour
MaxBackups == 2      \* backups in one behaviour
MaxFiles == 2        \* files in history/ when histories() reads it

(***************************************************************************)
(* Sequences.                                                              *)
(***************************************************************************)
Range(s) == {s[i] : i \in 1..Len(s)}

Take(s, n) == SubSeq(s, 1, n)

Drop(s, n) == SubSeq(s, n + 1, Len(s))

StartsWith(s, p) == Len(p) <= Len(s) /\ Take(s, Len(p)) = p

\* every sequence over S of length at most n
SeqsUpTo(S, n) == UNION {[1..k -> S] : k \in 0..n}

\* every enumeration without repetition of the finite set S
Perms(S) == {p \in [1..Cardinality(S) -> S] : Range(p) = S}

\* lexicographic order of integer sequences: the order of Rust's str and String
RECURSIVE StrLess(_, _)
StrLess(s, t) ==
    IF s = << >> THEN t # << >>
    ELSE IF t = << >> THEN FALSE
    ELSE IF Head(s) # Head(t) THEN Head(s) < Head(t)
    ELSE StrLess(Tail(s), Tail(t))

(***************************************************************************)
(* Bytes, files and HashID (core/hash.rs).                                 *)
(***************************************************************************)
NoAttr == [name |-> << >>, readonly |-> FALSE, modified |-> 0]

\* the bytes of a file that is no JSON of an entry
RawBytes(s) ==
    [fmt |-> "raw", raw |-> s, attr |-> NoAttr, children |-> << >>,
     target |-> << >>, is_dir |-> FALSE]

EmptyBytes == RawBytes(<< >>)

\* how many units a reader or writer moves over
Size(b) == IF b.fmt = "raw" THEN Len(b.raw) ELSE 1

\* the bytes from offset pos to the end
ReadFrom(b, pos) ==
    IF pos = 0 THEN b
    ELSE IF b.fmt = "raw" THEN RawBytes(Drop(b.raw, pos))
    ELSE EmptyBytes

\* SHA3-256 as an injective function of the bytes: Sha3_256 + hex::encode
Digest(b) == [sha3 |-> b]

\* hash without the seek back to the start
hash_noseek(f) ==
    [id |-> Digest(ReadFrom(f.data, f.pos)), f |-> [f EXCEPT !.pos = Size(f.data)]]

\* hash(f): reads f from its position to the end, then seeks back to offset 0
hash(f) ==
    [id |-> Digest(ReadFrom(f.data, f.pos)), f |-> [f EXCEPT !.pos = 0]]

\* fs::File::open: a handle at offset 0
FileOpen(b) == [data |-> b, pos |-> 0]

(***************************************************************************)
(* The object store (core/repo.rs).                                        *)
(***************************************************************************)
\* open_object(id): the verified handle, or the error
open_object(objs, id) ==
    IF id \notin DOMAIN objs
    THEN [ok |-> FALSE, err |-> "EntryNotFound", id |-> <<id>>, actual |-> << >>, f |-> << >>]
    ELSE LET h == hash(FileOpen(objs[id]))
         IN  IF h.id # id
             THEN [ok |-> FALSE, err |-> "BrokenObject", id |-> <<id>>,
                   actual |-> <<h.id>>, f |-> << >>]
             ELSE [ok |-> TRUE, err |-> "", id |-> <<id>>, actual |-> << >>, f |-> <<h.f>>]

\* the file after File::create: it exists and is empty
FileCreate(objs, id) ==
    IF id \in DOMAIN objs THEN [objs EXCEPT ![id] = EmptyBytes]
    ELSE [i \in DOMAIN objs \cup {id} |-> IF i = id THEN EmptyBytes ELSE objs[i]]

\* a write of chunk at offset off of a raw file: a gap before off reads as zeros
WriteAt(data, off, chunk) ==
    LET n == IF Len(data) > off + Len(chunk) THEN Len(data) ELSE off + Len(chunk)
    IN  [i \in 1..n |->
            IF i > off /\ i <= off + Len(chunk) THEN chunk[i - off]
            ELSE IF i <= Len(data) THEN data[i]
            ELSE 0]

\* a write in append mode: the chunk lands at the end of the file
WriteAppend(data, off, chunk) == data \o chunk

\* one write call of io::copy in save_object, at the handle's own offset
CopyChunk(data, off, chunk) == WriteAt(data, off, chunk)

\* save_object run to its end with nothing interleaved: create, then copy temp
\* from its position
save_object(objs, id, temp) ==
    [i \in DOMAIN objs \cup {id} |->
        IF i = id THEN ReadFrom(temp.data, temp.pos) ELSE objs[i]]

(***************************************************************************)
(* Starting values of the variables a specification leaves alone.          *)
(***************************************************************************)
Writers == {"w1", "w2"}

IdleWriter == [pc |-> "idle", id |-> Digest(EmptyBytes), src |-> EmptyBytes, off |-> 0,
               raced |-> FALSE]

NothingOpened ==
    [asked |-> << >>, seen |-> << >>, kinds |-> {},
     res |-> [ok |-> FALSE, err |-> "none", id |-> << >>, actual |-> << >>, f |-> << >>]]

NoObjects == [i \in {} |-> EmptyBytes]

IdleSave == [pc |-> "idle", timestamp |-> 0, id |-> << >>, killed |-> FALSE,
             begun |-> 0, used |-> {}, reused |-> FALSE]

\* no histories() or find_hash() call made yet
NothingListed == [op |-> "none", order |-> << >>, hash_prefix |-> << >>,
                  res |-> [ok |-> TRUE, v |-> << >>]]

\* no backup made yet
NoRun == [n |-> 0, ok |-> FALSE, same |-> FALSE, prior |-> << >>, root |-> << >>,
          read |-> {}, fast |-> {}, written |-> << >>, fresh |-> {}, tree |-> << >>,
          before |-> << >>, nondir |-> FALSE, met |-> {}, dirs |-> {}, nondirs |-> {}]

\* no function of the ignore engine called yet
NoCall == [fn |-> "none", in |-> << >>, out |-> << >>]

\* no restore made yet
NoRestore == [n |-> 0, ok |-> FALSE, name |-> << >>, at |-> 0, symlinks |-> << >>,
              root |-> << >>, before |-> << >>, overwrite |-> FALSE, remove |-> FALSE]

storeVars == <<objects, wr, opened, sealed>>

histVars == <<histFiles, lastScanFile, sh, calls, listed>>

treeVars == <<fs, clock, edits, run, target, rt, call>>

(***************************************************************************)
(* SpecStore: callers of save_object and open_object on one repository.    *)
(***************************************************************************)
\* the bodies the callers save: the empty one, and one per byte value
Bodies == {RawBytes([i \in 1..n |-> v]) : n \in {0, MaxLen}, v \in {1, 2}}

\* save_object is entered with the id of temp, as every caller computes it
SaveBegin(w, b) ==
    /\ wr[w].pc \in {"idle", "done"}
    /\ wr' = [wr EXCEPT ![w] = [pc |-> "create", id |-> Digest(b), src |-> b, off |-> 0,
                                raced |-> FALSE]]
    /\ UNCHANGED <<objects, opened, sealed, histVars, treeVars>>

\* create_dir_all, then File::create(out_path): the object file is truncated
SaveCreate(w) ==
    /\ wr[w].pc = "create"
    /\ objects' = FileCreate(objects, wr[w].id)
    /\ wr' = [wr EXCEPT ![w].pc = "copy",
                        ![w].raced = \E o \in Writers \ {w} :
                            wr[o].pc = "copy" /\ wr[o].id = wr[w].id /\ wr[o].off > 0]
    /\ UNCHANGED <<opened, sealed, histVars, treeVars>>

\* io::copy: one write call of n bytes at this handle's offset
SaveWrite(w, n) ==
    /\ wr[w].pc = "copy"
    /\ wr[w].off + n <= Size(wr[w].src)
    /\ wr[w].id \in DOMAIN objects
    /\ objects' = [objects EXCEPT ![wr[w].id] =
          RawBytes(CopyChunk(@.raw, wr[w].off, SubSeq(wr[w].src.raw, wr[w].off + 1, wr[w].off + n)))]
    /\ wr' = [wr EXCEPT ![w].off = @ + n]
    /\ UNCHANGED <<opened, sealed, histVars, treeVars>>

\* io::copy met the end of temp: save_object returns Ok
SaveReturn(w) ==
    /\ wr[w].pc = "copy"
    /\ wr[w].off = Size(wr[w].src)
    /\ wr' = [wr EXCEPT ![w].pc = "done"]
    /\ UNCHANGED <<objects, opened, sealed, histVars, treeVars>>

\* a call of open_object(id)
OpenObject(id) ==
    /\ opened' = [asked |-> <<id>>,
                  seen |-> IF id \in DOMAIN objects THEN <<objects[id]>> ELSE << >>,
                  kinds |-> opened.kinds \cup {open_object(objects, id).err},
                  res |-> open_object(objects, id)]
    /\ UNCHANGED <<objects, wr, sealed, histVars, treeVars>>

StoreNext ==
    \/ \E w \in Writers, b \in Bodies : SaveBegin(w, b)
    \/ \E w \in Writers : SaveCreate(w)
    \/ \E w \in Writers, n \in 1..MaxLen : SaveWrite(w, n)
    \/ \E w \in Writers : SaveReturn(w)
    \/ \E b \in Bodies : OpenObject(Digest(b))

StoreInit ==
    /\ objects = NoObjects /\ wr = [w \in Writers |-> IdleWriter] /\ opened = NothingOpened
    /\ histFiles = << >> /\ lastScanFile = << >> /\ sh = IdleSave /\ calls = << >>
    /\ listed = NothingListed
    /\ fs = << >> /\ clock = 0 /\ edits = 0 /\ run = NoRun /\ target = << >> /\ rt = NoRestore
    /\ call = NoCall /\ sealed = {}

SpecStore == StoreInit /\ [][StoreNext]_vars

\* C1: open_object(id) fails with EntryNotFound(id) when no file is at the object
\* path, fails with BrokenObject{to_be: id, actual: hash of the file} when the file's
\* bytes do not hash to id, and returns a stream only when they do, at offset 0.
C1_OpenObjectVerifies ==
    opened.asked # << >> =>
        LET id == opened.asked[1]
            r == opened.res
        IN  /\ opened.seen = << >> =>
                ~r.ok /\ r.err = "EntryNotFound" /\ r.id = <<id>>
            /\ (opened.seen # << >> /\ Digest(opened.seen[1]) # id) =>
                ~r.ok /\ r.err = "BrokenObject" /\ r.id = <<id>>
                      /\ r.actual = <<Digest(opened.seen[1])>>
            /\ r.ok =>
                /\ opened.seen # << >> /\ Digest(opened.seen[1]) = id
                /\ r.f = <<[data |-> opened.seen[1], pos |-> 0]>>

\* all three outcomes have been seen, the successful one last and on a body that is
\* not empty
C1_Witness ==
    /\ opened.res.ok /\ Size(opened.seen[1]) > 0
    /\ {"EntryNotFound", "BrokenObject"} \subseteq opened.kinds

\* C10: when two callers have both completed save_object for the same id with the
\* same bytes, whatever the interleaving of their truncations and writes, the
\* object file holds exactly those bytes and open_object(id) succeeds.
C10_ConcurrentSameId ==
    \A w \in Writers, o \in Writers :
        (w # o /\ wr[w].pc = "done" /\ wr[o].pc = "done" /\ wr[w].id = wr[o].id) =>
            /\ wr[w].id \in DOMAIN objects
            /\ objects[wr[w].id] = wr[w].src
            /\ open_object(objects, wr[w].id).ok

\* both completed after one truncated the file the other had partly written
C10_Witness ==
    /\ \A w \in Writers : wr[w].pc = "done" /\ Size(wr[w].src) > 0
    /\ wr["w1"].id = wr["w2"].id
    /\ \E w \in Writers : wr[w].raced

(***************************************************************************)
(* History records and the bank's history files (core/repo.rs).            *)
(***************************************************************************)
\* Ord of HashID, a String of hex digits
IdLess(a, b) == StrLess(a, b)

\* #[derive(PartialOrd, Ord)] of History: by timestamp, then by id
HistoryLess(a, b) ==
    \/ a.timestamp < b.timestamp
    \/ a.timestamp = b.timestamp /\ IdLess(a.id, b.id)

\* res.sort() of a Vec<History>: stable, a record goes after the smaller ones and
\* after the equal ones that came before it
SortHistories(s) ==
    LET n == Len(s)
        pos(i) == 1 + Cardinality({j \in 1..n :
                        HistoryLess(s[j], s[i]) \/ (~HistoryLess(s[i], s[j]) /\ j < i)})
    IN  [k \in 1..n |-> s[CHOOSE i \in 1..n : pos(i) = k]]

\* the file a to_writer call has written n pieces of
Written(rec, n) == [rec |-> rec, n |-> n]

Complete(file) == file.n = JsonChunks

\* from_reader: the record of a completely written file, else a parse error
from_reader(file) ==
    IF Complete(file) THEN [ok |-> TRUE, v |-> <<file.rec>>] ELSE [ok |-> FALSE, v |-> << >>]

\* a file name that does not depend on the record
file_name_fixed(rec) == 0

\* History::file_name, without the fixed suffix: the epoch second
file_name(rec) == rec.timestamp

\* the function f with key k set to v
Put(f, k, v) == [x \in DOMAIN f \cup {k} |-> IF x = k THEN v ELSE f[x]]

\* last_scan(): None when last_scan.json is absent, else its parsed record
last_scan(lsf) ==
    IF lsf = << >> THEN [ok |-> TRUE, v |-> << >>] ELSE from_reader(lsf[1])

\* histories() without the sort: the records in the order read_dir gave the files
histories_unsorted(files, order) ==
    IF \E i \in 1..Len(order) : ~from_reader(files[order[i]]).ok
    THEN [ok |-> FALSE, v |-> << >>]
    ELSE [ok |-> TRUE, v |-> [i \in 1..Len(order) |-> files[order[i]].rec]]

\* histories(): the records of the files of history/, read in the order read_dir
\* gives them, sorted; an error when a file does not parse
histories(files, order) ==
    IF \E i \in 1..Len(order) : ~from_reader(files[order[i]]).ok
    THEN [ok |-> FALSE, v |-> << >>]
    ELSE [ok |-> TRUE,
          v |-> SortHistories([i \in 1..Len(order) |-> files[order[i]].rec])]

\* find_hash(hash_prefix): the histories whose id starts with the prefix
RECURSIVE find_hash_loop(_, _)
find_hash_loop(hs, hash_prefix) ==
    IF hs = << >> THEN << >>
    ELSE (IF StartsWith(Head(hs).id, hash_prefix) THEN <<Head(hs)>> ELSE << >>)
         \o find_hash_loop(Tail(hs), hash_prefix)

find_hash(files, order, hash_prefix) ==
    LET h == histories(files, order)
    IN  IF h.ok THEN [ok |-> TRUE, v |-> find_hash_loop(h.v, hash_prefix)] ELSE h

(***************************************************************************)
(* save_history, one file operation at a time.                             *)
(***************************************************************************)
\* the order of save_history's steps
StepAfter(pc) ==
    CASE pc = "idle" -> "create_history"
      [] pc = "create_history" -> "write_history"
      [] pc = "write_history" -> "create_last_scan"
      [] pc = "create_last_scan" -> "write_last_scan"
      [] pc = "write_last_scan" -> "return"
      [] OTHER -> "idle"

\* the ids the caller of save_history passes: hex strings
HistIds == {<<48, 48>>, <<48, 49>>, <<49, 48>>}

Times == 1..MaxClock

shRec == [timestamp |-> sh.timestamp, id |-> sh.id]

\* save_history(id, timestamp) is entered: ensure_dir(history_dir)
SaveHistoryBegin(id, timestamp) ==
    /\ sh.pc = "idle"
    /\ sh.begun < MaxCalls
    /\ sh' = [sh EXCEPT !.pc = StepAfter("idle"), !.timestamp = timestamp, !.id = id,
                        !.begun = @ + 1,
                        !.reused = @ \/ timestamp \in sh.used,
                        !.used = @ \cup {timestamp}]
    /\ UNCHANGED <<histFiles, lastScanFile, calls, listed, storeVars, treeVars>>

\* File::create(&history_file)
CreateHistoryFile ==
    /\ sh.pc = "create_history"
    /\ histFiles' = Put(histFiles, file_name(shRec), Written(shRec, 0))
    /\ sh' = [sh EXCEPT !.pc = StepAfter(sh.pc)]
    /\ UNCHANGED <<lastScanFile, calls, listed, storeVars, treeVars>>

\* to_writer(f, &last_scan) into the history file: one write call
WriteHistoryFile ==
    /\ sh.pc = "write_history"
    /\ histFiles' = [histFiles EXCEPT ![file_name(shRec)].n = @ + 1]
    /\ sh' = [sh EXCEPT !.pc = IF Complete(histFiles'[file_name(shRec)])
                               THEN StepAfter(sh.pc) ELSE sh.pc]
    /\ UNCHANGED <<lastScanFile, calls, listed, storeVars, treeVars>>

\* File::create(&last_scan_file)
CreateLastScanFile ==
    /\ sh.pc = "create_last_scan"
    /\ lastScanFile' = <<Written(shRec, 0)>>
    /\ sh' = [sh EXCEPT !.pc = StepAfter(sh.pc)]
    /\ UNCHANGED <<histFiles, calls, listed, storeVars, treeVars>>

\* to_writer(f, &last_scan) into last_scan.json: one write call
WriteLastScanFile ==
    /\ sh.pc = "write_last_scan"
    /\ lastScanFile' = <<[lastScanFile[1] EXCEPT !.n = @ + 1]>>
    /\ sh' = [sh EXCEPT !.pc = IF Complete(lastScanFile'[1]) THEN StepAfter(sh.pc) ELSE sh.pc]
    /\ UNCHANGED <<histFiles, calls, listed, storeVars, treeVars>>

\* save_history returns Ok(())
SaveHistoryReturn ==
    /\ sh.pc = "return"
    /\ sh' = [sh EXCEPT !.pc = "idle"]
    /\ calls' = Append(calls, shRec)
    /\ UNCHANGED <<histFiles, lastScanFile, listed, storeVars, treeVars>>

\* the process is killed inside save_history: the files stay as they are
Kill ==
    /\ sh.pc \notin {"idle", "return"}
    /\ sh' = [sh EXCEPT !.pc = "idle", !.killed = TRUE]
    /\ UNCHANGED <<histFiles, lastScanFile, calls, listed, storeVars, treeVars>>

HistInit ==
    /\ objects = NoObjects /\ wr = [w \in Writers |-> IdleWriter] /\ opened = NothingOpened
    /\ histFiles = << >> /\ lastScanFile = << >> /\ sh = IdleSave /\ calls = << >>
    /\ listed = NothingListed
    /\ fs = << >> /\ clock = 0 /\ edits = 0 /\ run = NoRun /\ target = << >> /\ rt = NoRestore
    /\ call = NoCall /\ sealed = {}

HistNext ==
    \/ \E id \in HistIds, t \in Times : SaveHistoryBegin(id, t)
    \/ CreateHistoryFile
    \/ WriteHistoryFile
    \/ CreateLastScanFile
    \/ WriteLastScanFile
    \/ SaveHistoryReturn
    \/ Kill

SpecHist == HistInit /\ [][HistNext]_vars

\* the seconds the successful calls used, and the last successful call of a second
SecondsOf(cs) == {cs[i].timestamp : i \in 1..Len(cs)}

LastWith(cs, t) ==
    cs[CHOOSE i \in 1..Len(cs) :
          cs[i].timestamp = t /\ \A j \in (i + 1)..Len(cs) : cs[j].timestamp # t]

\* C6: after successful save_history calls, last_scan() is the record of the most
\* recent call, and histories() holds exactly one record per epoch second used, the
\* one of the last call with that second; while a call runs, the files of the other
\* seconds stay as they were.
C6_LastScanAndHistories ==
    (~sh.killed /\ calls # << >>) =>
        /\ \A t \in SecondsOf(calls) :
              (sh.pc = "idle" \/ t # sh.timestamp) =>
                  /\ t \in DOMAIN histFiles
                  /\ histFiles[t] = Written(LastWith(calls, t), JsonChunks)
        /\ sh.pc = "idle" =>
              /\ last_scan(lastScanFile) = [ok |-> TRUE, v |-> <<calls[Len(calls)]>>]
              /\ \A order \in Perms(DOMAIN histFiles) :
                    LET h == histories(histFiles, order)
                    IN  /\ h.ok
                        /\ Len(h.v) = Cardinality(SecondsOf(calls))
                        /\ Range(h.v) = {LastWith(calls, t) : t \in SecondsOf(calls)}

\* three calls returned: two of them used the same second with different ids, and
\* the last one used an earlier second than the one before it
C6_Witness ==
    /\ ~sh.killed /\ sh.pc = "idle" /\ Len(calls) = 3
    /\ calls[1].timestamp = calls[2].timestamp /\ calls[1].id # calls[2].id
    /\ calls[3].timestamp < calls[2].timestamp

\* save_history touches last_scan.json only when the history file of its record is
\* completely written
HistoryFileFirst ==
    sh.pc \in {"create_last_scan", "write_last_scan", "return"} =>
        /\ file_name(shRec) \in DOMAIN histFiles
        /\ histFiles[file_name(shRec)] = Written(shRec, JsonChunks)

\* the record last_scan.json reads as is also the record of its history file
LastScanHasHistoryFile ==
    LET l == last_scan(lastScanFile)
    IN  (l.ok /\ l.v # << >>) =>
            /\ file_name(l.v[1]) \in DOMAIN histFiles
            /\ histFiles[file_name(l.v[1])] = Written(l.v[1], JsonChunks)

\* C8: the history file is complete before last_scan.json is touched, and at every
\* point, a kill between steps included, the record last_scan.json reads as is held
\* by a complete history file.
C8_HistoryBeforeLastScan == HistoryFileFirst /\ LastScanHasHistoryFile

\* C9: once a save_history call has succeeded, last_scan.json reads at every instant
\* as a complete record, the previous one or the one being saved, never as an empty
\* or partly written file.
C9_AtomicLastScan ==
    calls # << >> =>
        LET l == last_scan(lastScanFile)
        IN  /\ l.ok /\ l.v # << >>
            /\ l.v[1] \in {calls[Len(calls)], shRec}

(***************************************************************************)
(* histories() and find_hash() over a history/ directory with any files in *)
(* it: the directory is a plain one, a file copied in from another bank    *)
(* has a name that need not be the second of its record.                   *)
(***************************************************************************)
HistRecords == [timestamp : Times, id : HistIds]

\* the contents a file of history/ can have: a complete record or a truncated one
HistContents == {Written(r, n) : r \in HistRecords, n \in {0, JsonChunks}}

HistDirs == UNION {[1..n -> HistContents] : n \in 0..MaxFiles}

\* the prefixes find_hash is asked for: strings of hex digits
HashPrefixes == SeqsUpTo({48, 49}, MaxLen)

\* bank.histories(), read_dir giving the files in this order
ListHistories(order) ==
    /\ listed.op = "none"
    /\ listed' = [op |-> "histories", order |-> order, hash_prefix |-> << >>,
                  res |-> histories(histFiles, order)]
    /\ UNCHANGED <<histFiles, lastScanFile, sh, calls, storeVars, treeVars>>

\* bank.find_hash(hash_prefix), read_dir giving the files in this order
FindHash(order, hash_prefix) ==
    /\ listed.op = "none"
    /\ listed' = [op |-> "find_hash", order |-> order, hash_prefix |-> hash_prefix,
                  res |-> find_hash(histFiles, order, hash_prefix)]
    /\ UNCHANGED <<histFiles, lastScanFile, sh, calls, storeVars, treeVars>>

HistDirInit ==
    /\ objects = NoObjects /\ wr = [w \in Writers |-> IdleWriter] /\ opened = NothingOpened
    /\ histFiles \in HistDirs
    /\ lastScanFile = << >> /\ sh = IdleSave /\ calls = << >>
    /\ listed = NothingListed
    /\ fs = << >> /\ clock = 0 /\ edits = 0 /\ run = NoRun /\ target = << >> /\ rt = NoRestore
    /\ call = NoCall /\ sealed = {}

HistDirNext ==
    \/ \E order \in Perms(DOMAIN histFiles) : ListHistories(order)
    \/ \E order \in Perms(DOMAIN histFiles), p \in HashPrefixes : FindHash(order, p)

SpecHistDir == HistDirInit /\ [][HistDirNext]_vars

\* how many files of history/ hold the record r
FilesHolding(r) == Cardinality({k \in DOMAIN histFiles : histFiles[k].rec = r})

\* how many times the record r is in the list v
TimesIn(v, r) == Cardinality({i \in 1..Len(v) : v[i] = r})

\* ascending by timestamp, ties by id
Ascending(v) ==
    \A i, j \in 1..Len(v) :
        i < j => \/ v[i].timestamp < v[j].timestamp
                 \/ v[i].timestamp = v[j].timestamp /\ ~StrLess(v[j].id, v[i].id)

\* C7: histories() returns the records of the bank's history files sorted ascending
\* by timestamp, ties broken by id; find_hash(p) returns exactly the records of
\* histories() whose id begins with p, in the same order, and find_hash("") is
\* histories().
C7_HistoriesSortedAndFiltered ==
    (listed.op # "none" /\ listed.res.ok) =>
        LET v == listed.res.v
            p == listed.hash_prefix
            Begins(r) == StartsWith(r.id, p)
            all == histories(histFiles, listed.order)
        IN  /\ Ascending(v)
            /\ \A r \in HistRecords :
                  TimesIn(v, r) = IF Begins(r) THEN FilesHolding(r) ELSE 0
            /\ listed.op = "find_hash" => all.ok /\ v = SelectSeq(all.v, Begins)
            /\ p = << >> => v = all.v

\* find_hash with a prefix that is not empty returned two records that tie on the
\* timestamp and differ in id, which read_dir had given in the other order
C7_Witness ==
    /\ listed.op = "find_hash" /\ listed.res.ok
    /\ listed.hash_prefix # << >>
    /\ Len(listed.res.v) = 2 /\ Len(listed.order) = 2
    /\ listed.res.v[1].timestamp = listed.res.v[2].timestamp
    /\ listed.res.v[1].id # listed.res.v[2].id
    /\ histFiles[listed.order[1]].rec = listed.res.v[2]

(***************************************************************************)
(* The target tree of a bank: path -> node.  A path is the sequence of     *)
(* names below the target directory, << >> being the target itself.        *)
(***************************************************************************)
NameA == <<97>>

NameB == <<98>>

\* ".sbakignore"
IGNORE_FILE == <<46, 115, 98, 97, 107, 105, 103, 110, 111, 114, 101>>

\* the file name of the bank's target path
RootName == <<114>>

Names == {NameA, NameB, IGNORE_FILE}

\* a node of a tree; access is what opening the file or reading the directory gives:
\* "ok", "denied" (an io::Error of kind PermissionDenied) or "ioerr" (any other)
FileNode(content, readonly, modified) ==
    [kind |-> "file", readonly |-> readonly, modified |-> modified, content |-> content,
     target |-> << >>, is_dir |-> FALSE, access |-> "ok"]

DirNode(modified) ==
    [kind |-> "dir", readonly |-> FALSE, modified |-> modified, content |-> EmptyBytes,
     target |-> << >>, is_dir |-> FALSE, access |-> "ok"]

\* a symbolic link to an existing file or directory outside the tree
SymlinkNode(link, is_dir, modified) ==
    [kind |-> "symlink", readonly |-> FALSE, modified |-> modified, content |-> EmptyBytes,
     target |-> link, is_dir |-> is_dir, access |-> "ok"]

\* a directory with nothing in it
EmptyTree(modified) == [p \in {<< >>} |-> DirNode(modified)]

Parent(p) == Take(p, Len(p) - 1)

\* the names fs::read_dir(p) gives, in no order
ChildNames(tree, p) == {n \in Names : Append(p, n) \in DOMAIN tree}

\* the tree without p and everything below it
RemoveAt(tree, p) ==
    [q \in {q \in DOMAIN tree : ~StartsWith(q, p)} |-> tree[q]]

\* the tree with node at p in place of whatever was there; making or removing a
\* directory entry sets the modification time of the parent directory
PutNode(tree, p, node, now) ==
    LET rest == RemoveAt(tree, p)
        fresh == p \notin DOMAIN tree \/ tree[p].kind # node.kind
    IN  [q \in DOMAIN rest \cup {p} |->
            IF q = p THEN node
            ELSE IF fresh /\ q = Parent(p) THEN [rest[q] EXCEPT !.modified = now]
            ELSE rest[q]]

(***************************************************************************)
(* Entries and their references (core/entry.rs).                           *)
(***************************************************************************)
Attributes(name, readonly, modified) ==
    [name |-> name, readonly |-> readonly, modified |-> modified]

\* FsHash::Dir, FsHash::File, FsHash::Symlink: the serde tag, the attr, the id
FsHash(type, attr, id) == [type |-> type, attr |-> attr, id |-> id]

\* the position of the variant in the enum FsHash
VariantRank(type) ==
    CASE type = "dir" -> 0
      [] type = "file" -> 1
      [] OTHER -> 2

\* #[derive(Ord)] of Attributes: name, then readonly, then modified
AttributesLess(a, b) ==
    \/ StrLess(a.name, b.name)
    \/ /\ a.name = b.name
       /\ \/ (~a.readonly /\ b.readonly)
          \/ a.readonly = b.readonly /\ a.modified < b.modified

\* the order of two HashIDs of objects: the order of their hex digests, which is
\* some fixed total order of the digests
HashIDLess(a, b) == a # b /\ a = (CHOOSE x \in {a, b} : TRUE)

\* FsHash's derived order with the variant compared after attr and id
FsHashLess_attr_first(a, b) ==
    \/ AttributesLess(a.attr, b.attr)
    \/ /\ a.attr = b.attr
       /\ \/ HashIDLess(a.id, b.id)
          \/ a.id = b.id /\ VariantRank(a.type) < VariantRank(b.type)

\* #[derive(Ord)] of FsHash: the variant first, then attr, then id
FsHashLess(a, b) ==
    \/ VariantRank(a.type) < VariantRank(b.type)
    \/ /\ VariantRank(a.type) = VariantRank(b.type)
       /\ \/ AttributesLess(a.attr, b.attr)
          \/ a.attr = b.attr /\ HashIDLess(a.id, b.id)

\* self.children.sort(): stable
SortChildren(s) ==
    LET n == Len(s)
        pos(i) == 1 + Cardinality({j \in 1..n :
                        FsHashLess(s[j], s[i]) \/ (~FsHashLess(s[i], s[j]) /\ j < i)})
    IN  [k \in 1..n |-> s[CHOOSE i \in 1..n : pos(i) = k]]

\* a DirEntry as DirEntryBuilder makes it: no id yet
DirEntry(attr, children) == [id |-> << >>, attr |-> attr, children |-> children]

\* SymlinkEntry::new
SymlinkEntry(attr, link, is_dir) ==
    [id |-> << >>, attr |-> attr, target |-> link, is_dir |-> is_dir]

\* DirEntryBuilder::build that keeps the children in the order they were appended
build_unsorted(attr, children) == DirEntry(attr, children)

\* DirEntryBuilder::build
build(attr, children) == DirEntry(attr, SortChildren(children))

\* serde_json::to_writer of a DirEntry: the JSON holds attr and children, the id is
\* skipped
to_writer(entry) ==
    [fmt |-> "dir", raw |-> << >>, attr |-> entry.attr, children |-> entry.children,
     target |-> << >>, is_dir |-> FALSE]

\* serde_json::to_writer of a SymlinkEntry: attr, target and is_dir
to_writer_symlink(entry) ==
    [fmt |-> "symlink", raw |-> << >>, attr |-> entry.attr, children |-> << >>,
     target |-> entry.target, is_dir |-> entry.is_dir]

\* serde_json::from_reader as a DirEntry: the bytes must be the JSON of an object
\* with attr and children; the id defaults to None
from_reader_dir(b) ==
    IF b.fmt = "dir" THEN [ok |-> TRUE, v |-> DirEntry(b.attr, b.children)]
    ELSE [ok |-> FALSE, v |-> DirEntry(NoAttr, << >>)]

\* hash_reader(encoded): the id and a temporary file rewound to the start
hash_reader(b) == [id |-> Digest(b), temp |-> FileOpen(b)]

\* Bank::load_dir_entry, which scan_dir and extend_dir call as load_entry
load_entry(objs, id) ==
    LET o == open_object(objs, id)
    IN  IF ~o.ok THEN [ok |-> FALSE, v |-> DirEntry(NoAttr, << >>)]
        ELSE from_reader_dir(ReadFrom(o.f[1].data, o.f[1].pos))

\* DirEntry::find_child(name): None or the first child with the name
find_child(entry, name) ==
    LET hits == {i \in 1..Len(entry.children) : entry.children[i].attr.name = name}
    IN  IF hits = {} THEN << >>
        ELSE <<entry.children[CHOOSE i \in hits : \A j \in hits : i <= j]>>

\* the element of a set of one element: a result is named by drawing it from the
\* set that holds it alone
Only(S) == CHOOSE x \in S : TRUE

(***************************************************************************)
(* Ignore patterns (core/ignore/pattern.rs, pattern/parser.rs) and the     *)
(* stack of frames (core/ignore.rs).  A line of a pattern file and a name  *)
(* are sequences of character codes: 33 '!', 35 '#', 42 '*', 47 '/',       *)
(* 63 '?', 92 '\'.  A path is a sequence of components.                    *)
(***************************************************************************)
\* NamePatternPart::Str(s), AnyChar, AnyStr
Str(s) == [k |-> "Str", s |-> s]

AnyChar == [k |-> "AnyChar", s |-> << >>]

AnyStr == [k |-> "AnyStr", s |-> << >>]

\* NamePattern::from_parts: neighbouring Str parts become one Str, neighbouring
\* AnyStr parts one AnyStr
RECURSIVE NamePattern_from_parts(_)
NamePattern_from_parts(parts) ==
    IF Len(parts) < 2 THEN parts
    ELSE IF parts[1].k = "Str" /\ parts[2].k = "Str"
    THEN NamePattern_from_parts(<<Str(parts[1].s \o parts[2].s)>> \o Drop(parts, 2))
    ELSE IF parts[1].k = "AnyStr" /\ parts[2].k = "AnyStr"
    THEN NamePattern_from_parts(Tail(parts))
    ELSE <<parts[1]>> \o NamePattern_from_parts(Tail(parts))

\* trim_char of pattern.rs: s without its first character
trim_char(s) == Tail(s)

\* match_np whose AnyStr, when parts follow it, takes no character: the rest is
\* tried on s alone
RECURSIVE match_np_shortest(_, _)
match_np_shortest(parts, s) ==
    IF parts = << >> THEN s = << >>
    ELSE IF parts[1].k = "Str"
    THEN StartsWith(s, parts[1].s) /\ match_np_shortest(Tail(parts), Drop(s, Len(parts[1].s)))
    ELSE IF parts[1].k = "AnyChar"
    THEN s # << >> /\ match_np_shortest(Tail(parts), trim_char(s))
    ELSE Tail(parts) = << >> \/ (s # << >> /\ match_np_shortest(Tail(parts), s))

\* match_np: Str consumes itself, AnyChar one character; AnyStr as the last part
\* matches, else the rest is tried on s and on every shorter non-empty suffix of s
RECURSIVE match_np(_, _)
match_np(parts, s) ==
    IF parts = << >> THEN s = << >>
    ELSE IF parts[1].k = "Str"
    THEN StartsWith(s, parts[1].s) /\ match_np(Tail(parts), Drop(s, Len(parts[1].s)))
    ELSE IF parts[1].k = "AnyChar"
    THEN s # << >> /\ match_np(Tail(parts), trim_char(s))
    ELSE \/ Tail(parts) = << >>
         \/ \E i \in 0..(Len(s) - 1) : match_np(Tail(parts), Drop(s, i))

\* NamePattern::match_str
match_str(np, s) == match_np(np, s)

\* Ok(v) of the parser
ParseOk(v) == [st |-> "ok", v |-> v]

\* Err(Error::InvalidPattern(..)) of the parser
InvalidPattern == [st |-> "err", v |-> "InvalidPattern"]

\* Err(Error::IO(e)) of the parser: e is of kind PermissionDenied ("denied") or of
\* another kind ("ioerr")
IOFailure(kind) == [st |-> "err", v |-> kind]

\* a call that does not return
Hang == [st |-> "hang", v |-> << >>]

\* the parts before, then the parts of a result that is Ok
Then(before, result) ==
    IF result.st = "ok" THEN ParseOk(before \o result.v) ELSE result

\* how many characters the inner loop of parse_name_pattern pushes to res_str: those
\* before the first '\', '?' or '*'
PlainRun(input) ==
    CHOOSE n \in 0..Len(input) :
        /\ \A j \in 1..n : input[j] \notin {92, 63, 42}
        /\ n < Len(input) => input[n + 1] \in {92, 63, 42}

\* the loop 'parse of parse_name_pattern: an escape gives Str of its second
\* character, any other backslash is InvalidPattern; else a run of plain characters
\* gives a Str, and the '?' or '*' that ends it AnyChar or AnyStr
RECURSIVE parse_name_loop(_)
parse_name_loop(input) ==
    IF input = << >> THEN ParseOk(<< >>)
    ELSE IF Len(input) >= 2 /\ input[1] = 92 /\ input[2] \in {92, 63, 42}
    THEN Only({ Then(<<Str(<<input[2]>>)>>, rest) :
                rest \in {parse_name_loop(Drop(input, 2))} })
    ELSE IF input[1] = 92 THEN InvalidPattern
    ELSE LET n == PlainRun(input)
             res_str == IF n = 0 THEN << >> ELSE <<Str(Take(input, n))>>
             next == IF n < Len(input) /\ input[n + 1] = 63 THEN <<AnyChar>>
                     ELSE IF n < Len(input) /\ input[n + 1] = 42 THEN <<AnyStr>>
                     ELSE << >>
         IN  Only({ Then(res_str \o next, rest) :
                    rest \in {parse_name_loop(Drop(input, n + Len(next)))} })

\* parse_name_pattern that returns the parts as the loop pushed them
parse_name_raw(input) == parse_name_loop(input)

\* parse_name_pattern: the parts of the loop, normalised
parse_name_pattern(input) ==
    Only({ IF res.st = "ok" THEN ParseOk(NamePattern_from_parts(res.v)) ELSE res :
           res \in {parse_name_loop(input)} })

\* PatternPart::AnyPath
AnyPath == [any |-> TRUE, name |-> << >>]

\* PatternPart::Normal(name_pattern)
Normal(name) == [any |-> FALSE, name |-> name]

\* the loop 'part of pattern_split: "\/" puts '/' into the part, a '/' ends the
\* part; at any other backslash the loop goes round without taking a character
RECURSIVE split_part(_, _)
split_part(part, input) ==
    IF input = << >> THEN [st |-> "ok", part |-> part, left |-> << >>]
    ELSE IF Len(input) >= 2 /\ input[1] = 92 /\ input[2] = 47
    THEN split_part(Append(part, 47), Drop(input, 2))
    ELSE IF input[1] = 92 THEN [st |-> "hang", part |-> part, left |-> input]
    ELSE IF input[1] = 47 THEN [st |-> "ok", part |-> part, left |-> Tail(input)]
    ELSE split_part(Append(part, input[1]), Tail(input))

\* pattern_split
RECURSIVE pattern_split(_)
pattern_split(input) ==
    IF input = << >> THEN ParseOk(<< >>)
    ELSE Only({ IF p.st = "hang" THEN Hang
                ELSE Only({ Then(<<p.part>>, rest) : rest \in {pattern_split(p.left)} }) :
                p \in {split_part(<< >>, input)} })

\* the loop of Pattern::from_parts: neighbouring AnyPath parts become one
RECURSIVE normalize(_)
normalize(parts) ==
    IF Len(parts) < 2 THEN parts
    ELSE IF parts[1].any /\ parts[2].any THEN normalize(Tail(parts))
    ELSE <<parts[1]>> \o normalize(Tail(parts))

\* Pattern::from_parts: AnyPath is put before the parts of a pattern that cascades
from_parts(allow, cascade, dir_only, parts) ==
    [allow |-> allow, dir_only |-> dir_only,
     parts |-> (IF cascade THEN <<AnyPath>> ELSE << >>) \o normalize(parts)]

\* the loop of parse_pattern over the strings pattern_split gave: "**" is AnyPath,
\* any other string a name pattern
RECURSIVE pattern_parts(_)
pattern_parts(strs) ==
    IF strs = << >> THEN ParseOk(<< >>)
    ELSE IF strs[1] = <<42, 42>>
    THEN Only({ Then(<<AnyPath>>, rest) : rest \in {pattern_parts(Tail(strs))} })
    ELSE Only({ IF np.st # "ok" THEN np
                ELSE Only({ Then(<<Normal(np.v)>>, rest) :
                            rest \in {pattern_parts(Tail(strs))} }) :
                np \in {parse_name_pattern(strs[1])} })

\* parse_pattern: '!' allows, a leading '/' anchors, a trailing '/' is dir_only;
\* a pattern of two parts or more does not cascade
parse_pattern(line) ==
    LET allow == line # << >> /\ line[1] = 33
        in1 == IF allow THEN Tail(line) ELSE line
        rooted == in1 # << >> /\ in1[1] = 47
        in2 == IF rooted THEN Tail(in1) ELSE in1
        dir_only == in2 # << >> /\ in2[Len(in2)] = 47
        in3 == IF dir_only THEN Take(in2, Len(in2) - 1) ELSE in2
    IN  Only({ IF strs.st # "ok" THEN strs
               ELSE Only({ IF parts.st # "ok" THEN parts
                           ELSE ParseOk(from_parts(allow, ~rooted /\ Len(parts.v) < 2,
                                                   dir_only, parts.v)) :
                           parts \in {pattern_parts(strs.v)} }) :
               strs \in {pattern_split(in3)} })

\* the index of the first line feed of text, or Len(text) + 1
FirstLineFeed(text) ==
    CHOOSE k \in 1..(Len(text) + 1) :
        /\ k <= Len(text) => text[k] = 10
        /\ \A j \in 1..(k - 1) : text[j] # 10

\* trim_start of a line: without its leading spaces
RECURSIVE trim_start(_)
trim_start(line) ==
    IF line # << >> /\ line[1] = 32 THEN trim_start(Tail(line)) ELSE line

\* parse: a pattern per line, comment lines and empty lines skipped; the first line
\* that is no pattern ends the call
RECURSIVE parse(_)
parse(text) ==
    IF text = << >> THEN ParseOk(<< >>)
    ELSE LET k == FirstLineFeed(text)
             line == Take(text, k - 1)
             skipped == \/ line = << >>
                        \/ trim_start(line) # << >> /\ trim_start(line)[1] = 35
         IN  IF skipped THEN parse(Drop(text, k))
             ELSE Only({ IF pat.st # "ok" THEN pat
                         ELSE Only({ Then(<<pat.v>>, rest) :
                                     rest \in {parse(Drop(text, k))} }) :
                         pat \in {parse_pattern(line)} })

\* match_path: a Normal part matches the first component; AnyPath tries the rest of
\* the parts on the path and on every shorter non-empty suffix of it
RECURSIVE match_path(_, _)
match_path(parts, path) ==
    IF parts = << >> THEN path = << >>
    ELSE IF ~parts[1].any
         THEN /\ path # << >>
              /\ match_str(parts[1].name, path[1])
              /\ match_path(Tail(parts), Tail(path))
         ELSE \E drop_cnt \in 0..(Len(path) - 1) :
                  match_path(Tail(parts), Drop(path, drop_cnt))

\* Pattern::matches
pattern_matches(pat, entry_path) ==
    IF pat.dir_only /\ ~entry_path.is_dir THEN "Parent"
    ELSE IF match_path(pat.parts, entry_path.parts)
         THEN (IF pat.allow THEN "Allowed" ELSE "Ignored")
         ELSE "Parent"

\* Patterns::matches that asks the patterns in the order of their definition
RECURSIVE matches_forward(_, _)
matches_forward(patterns, entry_path) ==
    IF patterns = << >> THEN "Parent"
    ELSE IF pattern_matches(patterns[1], entry_path) # "Parent"
    THEN pattern_matches(patterns[1], entry_path)
    ELSE matches_forward(Tail(patterns), entry_path)

\* Patterns::matches: the patterns are asked from the last to the first, the first
\* of them that gives Allowed or Ignored decides
RECURSIVE matches(_, _)
matches(patterns, entry_path) ==
    IF patterns = << >> THEN "Parent"
    ELSE IF pattern_matches(patterns[Len(patterns)], entry_path) # "Parent"
    THEN pattern_matches(patterns[Len(patterns)], entry_path)
    ELSE matches(Take(patterns, Len(patterns) - 1), entry_path)

\* the components Path::components gives that are no file names: "..", a leading
\* "." and a leading root
ParentDir == <<46, 46>>

CurDir == <<46>>

RootDir == <<47>>

\* the loop of EntryPath::from_path over the components of the relative path
RECURSIVE components(_, _, _)
components(parts, relative, is_dir) ==
    IF relative = << >> THEN [st |-> "ok", parts |-> parts, is_dir |-> is_dir]
    ELSE IF relative[1] = ParentDir
    THEN IF parts = << >> THEN [st |-> "NotChild", parts |-> << >>, is_dir |-> is_dir]
         ELSE components(Take(parts, Len(parts) - 1), Tail(relative), is_dir)
    ELSE IF relative[1] \in {CurDir, RootDir}
    THEN [st |-> "UnexpectedComponent", parts |-> << >>, is_dir |-> is_dir]
    ELSE components(Append(parts, relative[1]), Tail(relative), is_dir)

\* EntryPath::from_path that takes every component after the root as a name
from_path_plain(root, entry, is_dir) ==
    IF ~StartsWith(entry, root) THEN [st |-> "NotChild", parts |-> << >>, is_dir |-> is_dir]
    ELSE [st |-> "ok", parts |-> Drop(entry, Len(root)), is_dir |-> is_dir]

\* EntryPath::from_path: strip_prefix(root), then the loop over the components
from_path(root, entry, is_dir) ==
    IF ~StartsWith(entry, root) THEN [st |-> "NotChild", parts |-> << >>, is_dir |-> is_dir]
    ELSE components(<< >>, Drop(entry, Len(root)), is_dir)

\* the bank's ignore file is absent: load_ignore_patterns gives no pattern
BankPatterns == << >>

\* a frame of the stack: the path it is bound to and its patterns
Frame(root_path, patterns) == [root_path |-> root_path, patterns |-> patterns]

\* IgnoreStack::new: the bottom frame
IgnoreStackNew(bank_patterns) == <<Frame(<< >>, bank_patterns)>>

\* load_patterns(ignore_file): File::open, then parse
load_patterns(tree, ignore_file) ==
    IF tree[ignore_file].kind # "file" THEN IOFailure("ioerr")
    ELSE IF tree[ignore_file].access # "ok" THEN IOFailure(tree[ignore_file].access)
    ELSE parse(tree[ignore_file].content.raw)

\* IgnoreStack::child(dir_name): the new frame is bound to the directory, and its
\* patterns are read from .sbakignore in the root_path of the frame it is made from
child(stack, tree, dir_name) ==
    LET self == stack[Len(stack)]
        root_path == IF Len(stack) > 1 THEN Append(self.root_path, dir_name)
                     ELSE self.root_path
        ignore_file == Append(self.root_path, IGNORE_FILE)
    IN  Only({ IF current_patterns.st # "ok" THEN current_patterns
               ELSE ParseOk(Append(stack, Frame(root_path, current_patterns.v))) :
               current_patterns \in {IF ignore_file \in DOMAIN tree
                                     THEN load_patterns(tree, ignore_file)
                                     ELSE ParseOk(<< >>)} })

\* IgnoreStack::ignored that asks the frames from the bottom up
RECURSIVE ignored_bottom_up(_, _, _)
ignored_bottom_up(stack, path, is_dir) ==
    Only({ IF entry_path.st # "ok" THEN [st |-> entry_path.st, v |-> FALSE]
           ELSE Only({ IF m = "Allowed" THEN [st |-> "ok", v |-> FALSE]
                       ELSE IF m = "Ignored" THEN [st |-> "ok", v |-> TRUE]
                       ELSE IF Len(stack) > 1
                       THEN ignored_bottom_up(Tail(stack), path, is_dir)
                       ELSE [st |-> "ok", v |-> FALSE] :
                       m \in {matches(stack[1].patterns, entry_path)} }) :
           entry_path \in {from_path(stack[1].root_path, path, is_dir)} })

\* IgnoreStack::ignored: the frames from the top down, the first whose patterns give
\* Allowed or Ignored decides
RECURSIVE ignored(_, _, _)
ignored(stack, path, is_dir) ==
    Only({ IF entry_path.st # "ok" THEN [st |-> entry_path.st, v |-> FALSE]
           ELSE Only({ IF m = "Allowed" THEN [st |-> "ok", v |-> FALSE]
                       ELSE IF m = "Ignored" THEN [st |-> "ok", v |-> TRUE]
                       ELSE IF Len(stack) > 1
                       THEN ignored(Take(stack, Len(stack) - 1), path, is_dir)
                       ELSE [st |-> "ok", v |-> FALSE] :
                       m \in {matches(stack[Len(stack)].patterns, entry_path)} }) :
           entry_path \in {from_path(stack[Len(stack)].root_path, path, is_dir)} })

(***************************************************************************)
(* The scanner (core/scan.rs).  A scan carries the object store and a      *)
(* record of what it did: the files whose body it read, the files it took  *)
(* the fast path for, the ids it wrote, in the order it wrote them, which   *)
(* of these writes were of the object of a directory, the directories it   *)
(* scanned with the id of a prior file or symlink, the io::Errors it met.  *)
(***************************************************************************)
StartOfScan(objs, unwritable) ==
    [objs |-> objs, sealed |-> unwritable, read |-> {}, fast |-> {}, written |-> << >>,
     dirs |-> {}, nondir |-> {}, met |-> {}]

\* Ok(Some(hash)) of a node, with what the scan did so far
Scanned(h, acc) == [st |-> "ok", hash |-> <<h>>, acc |-> acc]

\* Err(e) of a scan step: the objects written so far stay in the store
Failed(acc) == [st |-> "err", hash |-> << >>, acc |-> acc]

\* Err(io::Error) of kind PermissionDenied
Denied(acc) == [st |-> "denied", hash |-> << >>, acc |-> acc]

\* Ok(None): the node gets no hash in the entry of its directory
Omitted(acc) == [st |-> "ok", hash |-> << >>, acc |-> acc]

\* an io::Error is met while the node at p is scanned: in op, of the kind
Met(acc, p, op, kind) ==
    [acc EXCEPT !.met = @ \cup {[p |-> p, op |-> op, kind |-> kind]}]

\* the Err of fs::File::open or fs::read_dir of a node whose access is not "ok"
IOError(p, op, node, acc) ==
    IF node.access = "denied" THEN Denied(Met(acc, p, op, "denied"))
    ELSE Failed(Met(acc, p, op, "ioerr"))

\* convert_metadata: name, readonly flag and modification time in seconds
convert_metadata(name, node) == Attributes(name, node.readonly, node.modified)

\* bank.save_object(&id, file) from within a scan
Save(acc, id, file) ==
    [acc EXCEPT !.objs = save_object(acc.objs, id, file), !.written = Append(@, id)]

\* the Err of bank.save_object(&id, file) when File::create of the object file
\* fails: an io::Error of kind PermissionDenied, nothing is written
Refused(acc, p) == Denied(Met(acc, p, "save_object", "denied"))

\* scan_file that hashes and saves the body whatever the prior entry says
scan_file_slow(acc, p, attr, node, last_entry) ==
    IF node.access # "ok" THEN IOError(p, "open", node, acc)
    ELSE
    LET h == hash(FileOpen(node.content))
    IN  IF h.id \in acc.sealed THEN Refused([acc EXCEPT !.read = @ \cup {p}], p)
        ELSE Scanned(FsHash("file", attr, h.id),
                     [Save(acc, h.id, h.f) EXCEPT !.read = @ \cup {p}])

\* scan_file: the prior FileHash is returned as it is when its modification time
\* equals the file's; else the body is hashed and saved
scan_file(acc, p, attr, node, last_entry) ==
    IF last_entry # << >> /\ last_entry[1].attr.modified = attr.modified
    THEN Scanned(last_entry[1], [acc EXCEPT !.fast = @ \cup {p}])
    ELSE IF node.access # "ok" THEN IOError(p, "open", node, acc)
    ELSE LET h == hash(FileOpen(node.content))
         IN  IF h.id \in acc.sealed THEN Refused([acc EXCEPT !.read = @ \cup {p}], p)
             ELSE Scanned(FsHash("file", attr, h.id),
                          [Save(acc, h.id, h.f) EXCEPT !.read = @ \cup {p}])

\* scan_symlink: the SymlinkEntry is encoded, hashed and saved
scan_symlink(acc, p, attr, node) ==
    LET entry == SymlinkEntry(attr, node.target, node.is_dir)
        h == hash_reader(to_writer_symlink(entry))
    IN  IF h.id \in acc.sealed THEN Refused(acc, p)
        ELSE Scanned(FsHash("symlink", attr, h.id), Save(acc, h.id, h.temp))

\* the names of the children of p in the order read_dir gives them
ReadDir(tree, p, order) ==
    LET Here(n) == n \in ChildNames(tree, p)
    IN  SelectSeq(order, Here)

RECURSIVE scan_node_inner(_, _, _, _, _, _)
RECURSIVE scan_node(_, _, _, _, _, _)
RECURSIVE scan_dir(_, _, _, _, _, _, _)
RECURSIVE scan_children(_, _, _, _, _, _, _, _)

\* scan_node_inner: by the type symlink_metadata reports
scan_node_inner(tree, acc, p, ignore_stack, last_entry, order) ==
    LET node == tree[p]
        attr == convert_metadata(p[Len(p)], node)
    IN  IF node.kind = "dir"
        THEN scan_dir(tree,
                      IF last_entry # << >> /\ last_entry[1].type # "dir"
                      THEN [acc EXCEPT !.nondir = @ \cup {p}] ELSE acc,
                      p, ignore_stack, attr,
                      IF last_entry = << >> THEN << >> ELSE <<last_entry[1].id>>, order)
        ELSE IF node.kind = "file"
        THEN scan_file(acc, p, attr, node,
                       IF last_entry # << >> /\ last_entry[1].type = "file"
                       THEN last_entry ELSE << >>)
        ELSE scan_symlink(acc, p, attr, node)

\* scan_node: Err(Error::IO(e)) with e of kind PermissionDenied becomes Ok(None),
\* any other Err is handed on
scan_node(tree, acc, p, ignore_stack, last_entry, order) ==
    Only({ IF r.st = "denied" THEN Omitted(r.acc) ELSE r :
           r \in {scan_node_inner(tree, acc, p, ignore_stack, last_entry, order)} })

\* the loop of scan_dir over read_dir: an ignored child is skipped, the hash of
\* each other child that has one is appended to the builder
scan_children(tree, acc, p, current_stack, old_entry, names, order, children) ==
    IF names = << >> THEN [st |-> "ok", hash |-> children, acc |-> acc]
    ELSE LET ch == Append(p, Head(names))
             fs_meta_is_dir == tree[p].kind = "dir"
         IN  Only({
             IF ig.st # "ok" THEN Failed(acc)
             ELSE IF ig.v
             THEN scan_children(tree, acc, p, current_stack, old_entry, Tail(names),
                                order, children)
             ELSE Only({ IF r.st # "ok" THEN r
                         ELSE scan_children(tree, r.acc, p, current_stack, old_entry,
                                            Tail(names), order, children \o r.hash) :
                         r \in {scan_node(tree, acc, ch, current_stack,
                                          find_child(old_entry, Head(names)), order)} }) :
             ig \in {ignored(current_stack, ch, fs_meta_is_dir)} })

\* scan_dir: the prior entry is loaded from last_id, the frame of the directory is
\* made, the children are scanned, the built entry is encoded, hashed and saved
scan_dir(tree, acc, p, ignore_stack, attr, last_id, order) ==
    Only({ IF ~old_entry.ok THEN Failed(acc)
           ELSE Only({
               IF current_stack.st = "hang" THEN [st |-> "hang", hash |-> << >>, acc |-> acc]
               ELSE IF current_stack.st # "ok"
               THEN Failed(IF current_stack.v \in {"denied", "ioerr"}
                           THEN Met(acc, p, "load_patterns", current_stack.v) ELSE acc)
               ELSE IF tree[p].access # "ok" THEN IOError(p, "read_dir", tree[p], acc)
               ELSE Only({ IF r.st # "ok" THEN r
                           ELSE Only({ IF h.id \in r.acc.sealed THEN Refused(r.acc, p)
                                       ELSE Scanned(FsHash("dir", attr, h.id),
                                                    [Save(r.acc, h.id, h.temp) EXCEPT
                                                        !.dirs = @ \cup {Len(r.acc.written) + 1}]) :
                                       h \in {hash_reader(to_writer(build(attr, r.hash)))} }) :
                           r \in {scan_children(tree, acc, p, current_stack.v,
                                                old_entry.v, ReadDir(tree, p, order),
                                                order, << >>)} }) :
               current_stack \in {child(ignore_stack, tree, attr.name)} }) :
           old_entry \in {IF last_id # << >> THEN load_entry(acc.objs, last_id[1])
                          ELSE [ok |-> TRUE, v |-> build(attr, << >>)]} })

\* Scanner::scan: the root directory, with the id of last_scan() as its prior; an
\* Err of scan_dir, of whatever kind, is the Err of the scan
scan(tree, root_name, objs, unwritable, lsf, order) ==
    LET last == last_scan(lsf)
    IN  IF ~last.ok THEN Failed(StartOfScan(objs, unwritable))
        ELSE scan_dir(tree, StartOfScan(objs, unwritable), << >>,
                      IgnoreStackNew(BankPatterns),
                      convert_metadata(root_name, tree[<< >>]),
                      IF last.v = << >> THEN << >> ELSE <<last.v[1].id>>, order)

(***************************************************************************)
(* SpecBackup: a bank whose target tree is changed between backups.        *)
(***************************************************************************)
\* the body a changed file gets
FileContents == {RawBytes(<<2>>)}

\* the body of a file that holds the JSON of a directory entry, such as a copy of
\* a directory object of another repository: the entry of a directory with the
\* file "b", modified at second 1, whose object is not in this repository
DirJson ==
    to_writer(DirEntry(Attributes(NameA, FALSE, 0),
                       <<FsHash("file", Attributes(NameB, FALSE, 1),
                                Digest(RawBytes(<<9>>)))>>))

\* the body of .sbakignore: the one line "b"
IgnoreContents == {RawBytes(<<98>>)}

\* what the target holds under the name "a" at the start
StartA ==
    { [p \in {} |-> DirNode(0)],
      <<NameA>> :> FileNode(RawBytes(<<1>>), FALSE, 0),
      <<NameA>> :> FileNode(DirJson, FALSE, 0),
      <<NameA>> :> DirNode(0),
      (<<NameA>> :> DirNode(0)) @@ (<<NameA, NameB>> :> FileNode(RawBytes(<<1>>), FALSE, 0)),
      (<<NameA>> :> DirNode(0)) @@ (<<NameA, NameB>> :> FileNode(RawBytes(<<1>>), FALSE, 0))
          @@ (<<NameA, NameA>> :> FileNode(RawBytes(<<2>>), TRUE, 0)) }

\* what it holds under the name "b"
StartB ==
    { [p \in {} |-> DirNode(0)],
      <<NameB>> :> FileNode(RawBytes(<<1>>), TRUE, 0),
      <<NameB>> :> SymlinkNode(NameA, FALSE, 0) }

\* the start trees without .sbakignore, and some of them with one in the target
\* directory
StartTrees ==
    LET plain == {EmptyTree(0) @@ a @@ b : a \in StartA, b \in StartB}
    IN  plain \cup
        {t @@ (<<IGNORE_FILE>> :> FileNode(c, FALSE, 0)) :
            t \in {u \in plain : <<NameA, NameA>> \in DOMAIN u}, c \in IgnoreContents}

\* the orders read_dir can give the names of a directory in
Orders == Perms(Names)

\* two opposite ones of them
SomeOrders == {<<NameA, NameB, IGNORE_FILE>>, <<IGNORE_FILE, NameB, NameA>>}

\* the places an ordinary file is written to, a directory is made at
FilePaths == {<<NameA>>, <<NameB>>, <<NameA, NameB>>}

DirPaths == {<<NameA>>}

\* the clock moves on by a second
Tick ==
    /\ clock < MaxTicks
    /\ clock' = clock + 1
    /\ UNCHANGED <<fs, edits, run, target, rt, storeVars, histVars, call>>

\* a regular file is written at p, in place of whatever was there
PutFile(p, content, readonly) ==
    /\ edits < MaxEdits
    /\ Parent(p) \in DOMAIN fs /\ fs[Parent(p)].kind = "dir"
    /\ fs' = PutNode(fs, p, FileNode(content, readonly, clock), clock)
    /\ edits' = edits + 1
    /\ UNCHANGED <<clock, run, target, rt, storeVars, histVars, call>>

\* an empty directory is made at p, in place of whatever was there
PutDir(p) ==
    /\ edits < MaxEdits
    /\ IF p \in DOMAIN fs THEN fs[p].kind # "dir" ELSE TRUE
    /\ fs' = PutNode(fs, p, DirNode(clock), clock)
    /\ edits' = edits + 1
    /\ UNCHANGED <<clock, run, target, rt, storeVars, histVars, call>>

\* p and everything below it is removed
Remove(p) ==
    /\ edits < MaxEdits
    /\ p \in DOMAIN fs /\ p # << >>
    /\ fs' = [RemoveAt(fs, p) EXCEPT ![Parent(p)].modified = clock]
    /\ edits' = edits + 1
    /\ UNCHANGED <<clock, run, target, rt, storeVars, histVars, call>>

\* the record save_history writes into both files, completely
Saved(rec) == Written(rec, JsonChunks)

\* the backup that calls save_history also when the scan failed, with the id of the
\* last scan
BackupRecordingAnyway(order) ==
    /\ run.n < MaxBackups
    /\ \E r \in {scan(fs, RootName, objects, sealed, lastScanFile, order)},
          last \in {last_scan(lastScanFile)} :
           /\ objects' = r.acc.objs
           /\ IF r.st = "ok" \/ last.v # << >>
              THEN LET rec == [timestamp |-> clock,
                               id |-> IF r.st = "ok" THEN r.hash[1].id ELSE last.v[1].id]
                   IN  /\ histFiles' = Put(histFiles, file_name(rec), Saved(rec))
                       /\ lastScanFile' = <<Saved(rec)>>
                       /\ calls' = Append(calls, rec)
              ELSE UNCHANGED <<histFiles, lastScanFile, calls>>
           /\ run' = [n |-> run.n + 1,
                      ok |-> r.st = "ok",
                      same |-> run.ok /\ run.tree = <<fs>>,
                      prior |-> IF last.v = << >> THEN << >> ELSE <<last.v[1].id>>,
                      root |-> r.hash,
                      read |-> r.acc.read,
                      fast |-> r.acc.fast,
                      written |-> r.acc.written,
                      fresh |-> Range(r.acc.written) \ DOMAIN objects,
                      tree |-> <<fs>>,
                      before |-> run.root,
                      nondir |-> run.nondir \/ r.acc.nondir # {},
                      met |-> r.acc.met,
                      dirs |-> r.acc.dirs,
                      nondirs |-> r.acc.nondir]
    /\ UNCHANGED <<fs, clock, edits, target, rt, wr, opened, sealed, sh, listed, call>>

\* backup of the bank (sub/backup.rs, scan): Timestamp::now, Scanner::scan, and
\* when the scan returned a root hash, save_history of its id
Backup(order) ==
    /\ run.n < MaxBackups
    /\ \E r \in {scan(fs, RootName, objects, sealed, lastScanFile, order)},
          last \in {last_scan(lastScanFile)} :
           /\ objects' = r.acc.objs
           /\ IF r.st = "ok"
              THEN LET rec == [timestamp |-> clock, id |-> r.hash[1].id]
                   IN  /\ histFiles' = Put(histFiles, file_name(rec), Saved(rec))
                       /\ lastScanFile' = <<Saved(rec)>>
                       /\ calls' = Append(calls, rec)
              ELSE UNCHANGED <<histFiles, lastScanFile, calls>>
           /\ run' = [n |-> run.n + 1,
                      ok |-> r.st = "ok",
                      same |-> run.ok /\ run.tree = <<fs>>,
                      prior |-> IF last.v = << >> THEN << >> ELSE <<last.v[1].id>>,
                      root |-> r.hash,
                      read |-> r.acc.read,
                      fast |-> r.acc.fast,
                      written |-> r.acc.written,
                      fresh |-> Range(r.acc.written) \ DOMAIN objects,
                      tree |-> <<fs>>,
                      before |-> run.root,
                      nondir |-> run.nondir \/ r.acc.nondir # {},
                      met |-> r.acc.met,
                      dirs |-> r.acc.dirs,
                      nondirs |-> r.acc.nondir]
    /\ UNCHANGED <<fs, clock, edits, target, rt, wr, opened, sealed, sh, listed, call>>

BackupInit ==
    /\ objects = NoObjects /\ wr = [w \in Writers |-> IdleWriter] /\ opened = NothingOpened
    /\ histFiles = << >> /\ lastScanFile = << >> /\ sh = IdleSave /\ calls = << >>
    /\ listed = NothingListed
    /\ fs \in StartTrees
    /\ clock = 0 /\ edits = 0 /\ run = NoRun /\ target = << >> /\ rt = NoRestore
    /\ call = NoCall /\ sealed = {}

BackupNext ==
    \/ Tick
    \/ \E p \in FilePaths, c \in FileContents : PutFile(p, c, FALSE)
    \/ \E p \in DirPaths : PutDir(p)
    \/ \E p \in FilePaths : Remove(p)
    \/ \E order \in SomeOrders : Backup(order)

SpecBackup == BackupInit /\ [][BackupNext]_vars

\* every id reachable from the reference (type, id) opens: the object exists and
\* its bytes hash to the id
RECURSIVE Resolves(_, _, _)
Resolves(objs, type, id) ==
    /\ open_object(objs, id).ok
    /\ type = "dir" =>
          \A e \in {load_entry(objs, id)} :
              e.ok /\ \A i \in 1..Len(e.v.children) :
                          Resolves(objs, e.v.children[i].type, e.v.children[i].id)

\* C2: after successful backups, every id reachable through directory children
\* from the root of every history record resolves.
C2_ObjectIntegrity ==
    \A k \in DOMAIN histFiles : Resolves(objects, "dir", histFiles[k].rec.id)

\* the same, for the behaviours in which no scan gave scan_dir the id of a prior
\* entry that was a file or a symlink
IntegrityWithDirPriors == ~run.nondir => C2_ObjectIntegrity

\* C3: when nothing under the target changed since the backup before, the scan
\* returns the root id of that backup, reads the body of no file (every regular
\* file it meets takes the fast path) and writes no id the store did not hold.
C3_UnchangedFastPath ==
    run.same =>
        /\ run.ok
        /\ run.prior # << >> /\ run.root[1].id = run.prior[1]
        /\ run.read = {}
        /\ run.fresh = {}

\* a second backup of an unchanged tree took the fast path for a file of the target
\* and for a file of a directory below it
C3_Witness ==
    /\ run.same /\ run.n = 2
    /\ \E p, q \in run.fast : Len(p) = 1 /\ Len(q) = 2

(***************************************************************************)
(* SpecClean: a tree is scanned twice, each time into a new repository     *)
(* with no prior snapshot, read_dir giving the names in any order.         *)
(***************************************************************************)
\* the trees that are scanned: each start tree, with and without a .sbakignore in
\* the target directory, the target directory modified at second 0 or 1
CleanTrees ==
    {EmptyTree(m) @@ a @@ b @@ i :
        m \in {0, 1}, a \in StartA, b \in StartB,
        i \in {[p \in {} |-> DirNode(0)]}
               \cup {<<IGNORE_FILE>> :> FileNode(c, FALSE, 0) : c \in IgnoreContents}}

ScanClean(order) ==
    /\ run.n < MaxBackups
    /\ \E r \in {scan(fs, RootName, NoObjects, {}, << >>, order)} :
           /\ objects' = r.acc.objs
           /\ run' = [n |-> run.n + 1,
                      ok |-> r.st = "ok",
                      same |-> run.ok,
                      prior |-> << >>,
                      root |-> r.hash,
                      read |-> r.acc.read,
                      fast |-> r.acc.fast,
                      written |-> r.acc.written,
                      fresh |-> Range(r.acc.written),
                      tree |-> <<fs>>,
                      before |-> run.root,
                      nondir |-> run.nondir \/ r.acc.nondir # {},
                      met |-> r.acc.met,
                      dirs |-> r.acc.dirs,
                      nondirs |-> r.acc.nondir]
    /\ UNCHANGED <<fs, clock, edits, target, rt, wr, opened, sealed, histVars, call>>

CleanInit ==
    /\ objects = NoObjects /\ wr = [w \in Writers |-> IdleWriter] /\ opened = NothingOpened
    /\ histFiles = << >> /\ lastScanFile = << >> /\ sh = IdleSave /\ calls = << >>
    /\ listed = NothingListed
    /\ fs \in CleanTrees
    /\ clock = 0 /\ edits = 0 /\ run = NoRun /\ target = << >> /\ rt = NoRestore
    /\ call = NoCall /\ sealed = {}

CleanNext == \E order \in Orders : ScanClean(order)

SpecClean == CleanInit /\ [][CleanNext]_vars

\* C4: two scans without a prior snapshot of trees with the same names, attributes,
\* file contents and symlinks return the same root id, whatever orders read_dir
\* gave the children of the directories in.
C4_OrderIndependent ==
    (run.n >= 2 /\ run.ok) => run.root = run.before

\* the second scan wrote the objects of a tree, whose target directory and whose
\* directory "a" both hold two entries, in another order than the first scan did
C4_Witness ==
    /\ run.n >= 2 /\ run.ok
    /\ Cardinality(ChildNames(fs, << >>)) = 2
    /\ Cardinality(ChildNames(fs, <<NameA>>)) = 2
    /\ \E i, j \in 1..Len(run.written) :
          i < j /\ run.written[i].sha3.fmt = "raw" /\ run.written[j].sha3.fmt = "raw"
                /\ run.written[i].sha3.raw = <<2>> /\ run.written[j].sha3.raw = <<1>>

(***************************************************************************)
(* The restorer (core/extend.rs).                                          *)
(***************************************************************************)
\* Ok(()) of an extend step, with the tree and the symlinks listed so far
Extended(tree, symlinks) == [ok |-> TRUE, tree |-> tree, symlinks |-> symlinks]

\* Err(e) of an extend step: what was written stays
Aborted(tree, symlinks) == [ok |-> FALSE, tree |-> tree, symlinks |-> symlinks]

\* fs::File::create(path) and io::copy: the file exists with the object's bytes and
\* is modified now; a new file is writable and changes its directory
CreateAndCopy(tree, p, bytes, now) ==
    IF p \in DOMAIN tree
    THEN [tree EXCEPT ![p].content = bytes, ![p].modified = now]
    ELSE PutNode(tree, p, FileNode(bytes, FALSE, now), now)

\* permission.set_readonly(readonly) on the Permissions value fs::metadata gave:
\* the value is dropped, nothing is applied to the path
set_readonly(tree, p, readonly) == tree

\* set_file_mtime(path, modified)
set_file_mtime(tree, p, modified) == [tree EXCEPT ![p].modified = modified]

\* fs::File::create(path) succeeds: the path is no directory, and a path that does
\* not exist is in a directory
CanCreate(tree, p) ==
    IF p \in DOMAIN tree THEN tree[p].kind # "dir" ELSE tree[Parent(p)].kind = "dir"

\* extend_file that does not skip a file that exists
extend_file_unasked(tree, symlinks, objs, p, file_hash, overwrite, now) ==
    LET exists == p \in DOMAIN tree
    IN  IF exists /\ tree[p].modified = file_hash.attr.modified
        THEN Extended(tree, symlinks)
        ELSE Only({ IF ~f.ok \/ ~CanCreate(tree, p) THEN Aborted(tree, symlinks)
                    ELSE Extended(CreateAndCopy(tree, p,
                                      ReadFrom(f.f[1].data, f.f[1].pos), now), symlinks) :
                    f \in {open_object(objs, file_hash.id)} })

\* extend_file that creates the file before it opens the object
extend_file_create_first(tree, symlinks, objs, p, file_hash, overwrite, now) ==
    LET exists == p \in DOMAIN tree
    IN  IF exists /\ ~overwrite THEN Extended(tree, symlinks)
        ELSE IF exists /\ tree[p].modified = file_hash.attr.modified
        THEN Extended(tree, symlinks)
        ELSE IF ~CanCreate(tree, p) THEN Aborted(tree, symlinks)
        ELSE Only({ IF ~f.ok
                    THEN Aborted(CreateAndCopy(tree, p, EmptyBytes, now), symlinks)
                    ELSE Extended(
                             set_file_mtime(
                                 CreateAndCopy(tree, p,
                                     ReadFrom(f.f[1].data, f.f[1].pos), now),
                                 p, file_hash.attr.modified),
                             symlinks) :
                    f \in {open_object(objs, file_hash.id)} })

\* extend_file: a file that exists is skipped unless overwrite is set, and then
\* when its modification time is the snapshot's; else the object is opened, the
\* file created and the bytes copied
extend_file(tree, symlinks, objs, p, file_hash, overwrite, now) ==
    LET exists == p \in DOMAIN tree
    IN  IF exists /\ ~overwrite THEN Extended(tree, symlinks)
        ELSE IF exists /\ tree[p].modified = file_hash.attr.modified
        THEN Extended(tree, symlinks)
        ELSE Only({ IF ~f.ok \/ ~CanCreate(tree, p) THEN Aborted(tree, symlinks)
                    ELSE LET out == CreateAndCopy(tree, p,
                                        ReadFrom(f.f[1].data, f.f[1].pos), now)
                         IN  Extended(
                                 IF ~exists \/ overwrite
                                 THEN set_file_mtime(
                                          set_readonly(out, p, file_hash.attr.readonly),
                                          p, file_hash.attr.modified)
                                 ELSE out,
                                 symlinks) :
                    f \in {open_object(objs, file_hash.id)} })

\* serde_json::from_reader as a SymlinkEntry: attr, target and is_dir
from_reader_symlink(b) ==
    IF b.fmt = "symlink"
    THEN [ok |-> TRUE, v |-> SymlinkEntry(b.attr, b.target, b.is_dir)]
    ELSE [ok |-> FALSE, v |-> SymlinkEntry(NoAttr, << >>, FALSE)]

\* extend_symlink: the link is put on the list, nothing is made at the path
extend_symlink(tree, symlinks, objs, p, symlink_hash) ==
    LET o == open_object(objs, symlink_hash.id)
        e == IF o.ok THEN from_reader_symlink(ReadFrom(o.f[1].data, o.f[1].pos))
             ELSE [ok |-> FALSE, v |-> SymlinkEntry(NoAttr, << >>, FALSE)]
    IN  IF ~e.ok THEN Aborted(tree, symlinks)
        ELSE Extended(tree,
                      Append(symlinks,
                             [path |-> p, target |-> e.v.target, is_dir |-> e.v.is_dir]))

RECURSIVE extend_dir(_, _, _, _, _, _, _, _)
RECURSIVE extend_children(_, _, _, _, _, _, _, _)

\* the loop of extend_dir over the children of the entry
extend_children(tree, symlinks, objs, p, children, overwrite, remove, now) ==
    IF children = << >> THEN Extended(tree, symlinks)
    ELSE LET ch == Head(children)
             ch_path == Append(p, ch.attr.name)
         IN  Only({ IF ~r.ok THEN r
                    ELSE extend_children(r.tree, r.symlinks, objs, p, Tail(children),
                                         overwrite, remove, now) :
                    r \in {IF ch.type = "dir"
                           THEN Only({ IF ~ch_dir.ok THEN Aborted(tree, symlinks)
                                       ELSE extend_dir(tree, symlinks, objs, ch_path,
                                                       ch_dir.v, overwrite, remove, now) :
                                       ch_dir \in {load_entry(objs, ch.id)} })
                           ELSE IF ch.type = "file"
                           THEN extend_file(tree, symlinks, objs, ch_path, ch,
                                            overwrite, now)
                           ELSE extend_symlink(tree, symlinks, objs, ch_path, ch)} })

\* the entries of p that the snapshot does not hold are removed when remove is set
RemoveOthers(tree, p, kept, remove, now) ==
    LET others == {n \in ChildNames(tree, p) :
                      /\ n \notin kept
                      /\ tree[Append(p, n)].kind \in {"dir", "file"}}
    IN  IF ~remove \/ others = {} THEN tree
        ELSE [q \in {q \in DOMAIN tree :
                        \A n \in others : ~StartsWith(q, Append(p, n))} |->
                 IF q = p THEN [tree[q] EXCEPT !.modified = now] ELSE tree[q]]

\* extend_dir: the directory is made when it is missing, which fails in a path
\* that is no directory; the children are extended; fs::read_dir fails on a path
\* that is no directory; the readonly flag set on the Permissions value is applied
\* to nothing
extend_dir(tree, symlinks, objs, p, dir_entry, overwrite, remove, now) ==
    LET kept == {dir_entry.children[i].attr.name : i \in 1..Len(dir_entry.children)}
    IN  IF p \notin DOMAIN tree /\ tree[Parent(p)].kind # "dir"
        THEN Aborted(tree, symlinks)
        ELSE
        Only({ IF ~r.ok THEN r
               ELSE IF r.tree[p].kind # "dir" THEN Aborted(r.tree, r.symlinks)
               ELSE Extended(RemoveOthers(r.tree, p, kept, remove, now), r.symlinks) :
               r \in {extend_children(IF p \in DOMAIN tree THEN tree
                                      ELSE PutNode(tree, p, DirNode(now), now),
                                      symlinks, objs, p, dir_entry.children,
                                      overwrite, remove, now)} })

\* Extender::extend(target_path, history): load_root, then extend_dir
extend(tree, objs, history, overwrite, remove, now) ==
    Only({ IF ~root_dir.ok THEN Aborted(tree, << >>)
           ELSE extend_dir(tree, << >>, objs, << >>, root_dir.v, overwrite, remove, now) :
           root_dir \in {load_entry(objs, history.id)} })

(***************************************************************************)
(* SpecRestore: a tree is backed up, the last scan is restored into an     *)
(* empty directory, and that directory is scanned into a new bank.         *)
(***************************************************************************)
\* the file names the restore target can have: the source's, or another
TargetNames == {RootName, <<116>>}

\* restore of last_scan() into an empty directory made at second made, with the
\* flags Extender::new starts with (sub/restore.rs without --overwrite, --remove)
Restore(name, made) ==
    /\ rt.n = 0
    /\ made <= clock
    /\ lastScanFile # << >>
    /\ \E r \in {extend(EmptyTree(made), objects, last_scan(lastScanFile).v[1],
                          FALSE, FALSE, clock)} :
           /\ target' = r.tree
           /\ rt' = [n |-> 1, ok |-> r.ok, name |-> name, at |-> clock,
                     symlinks |-> r.symlinks, root |-> << >>,
                     before |-> EmptyTree(made), overwrite |-> FALSE, remove |-> FALSE]
    /\ UNCHANGED <<fs, clock, edits, run, storeVars, histVars, call>>

\* the scan of the restored directory into a bank that has no object and no
\* history yet
Rescan(order) ==
    /\ rt.n = 1 /\ rt.ok
    /\ \E r \in {scan(target, rt.name, NoObjects, {}, << >>, order)} :
           rt' = [rt EXCEPT !.n = 2, !.ok = r.st = "ok", !.root = r.hash]
    /\ UNCHANGED <<fs, clock, edits, run, target, storeVars, histVars, call>>

RestoreNext ==
    \/ Tick
    \/ \E order \in SomeOrders : Backup(order)
    \/ \E name \in TargetNames, made \in 0..MaxTicks : Restore(name, made)
    \/ \E order \in SomeOrders : Rescan(order)

SpecRestore == BackupInit /\ [][RestoreNext]_vars

\* the tree that was backed up holds no symbolic link
NoSymlinks == \A p \in DOMAIN fs : fs[p].kind # "symlink"

\* C5: for a snapshot without symlinks, restoring the last scan into an empty
\* directory and scanning that directory into a new bank gives the root id of the
\* original scan.
C5_RoundTrip ==
    (rt.n = 2 /\ NoSymlinks) => rt.ok /\ rt.root[1].id = run.root[1].id

\* the same for the restores made under the name of the source, in the second in
\* which the source was backed up and last modified
RoundTripSameNameSameSecond ==
    (rt.n = 2 /\ NoSymlinks /\ rt.name = RootName /\ rt.at = 0) =>
        rt.ok /\ rt.root[1].id = run.root[1].id

\* the same again for the trees without a read-only file
RoundTripWritableFiles ==
    (rt.n = 2 /\ NoSymlinks /\ rt.name = RootName /\ rt.at = 0
        /\ \A p \in DOMAIN fs : ~fs[p].readonly) =>
        rt.ok /\ rt.root[1].id = run.root[1].id

(***************************************************************************)
(* The functions of the ignore engine, called once on an input drawn from  *)
(* a bounded set: call holds the operands and the result.                  *)
(***************************************************************************)
\* the most frames a stack has
MaxDepth == 3

\* the most components a path has below the directory a frame is bound to
MaxBelow == 2

IgnoreInit ==
    /\ objects = NoObjects /\ wr = [w \in Writers |-> IdleWriter] /\ opened = NothingOpened
    /\ histFiles = << >> /\ lastScanFile = << >> /\ sh = IdleSave /\ calls = << >>
    /\ listed = NothingListed
    /\ fs = << >> /\ clock = 0 /\ edits = 0 /\ run = NoRun /\ target = << >> /\ rt = NoRestore
    /\ call = NoCall /\ sealed = {}

\* what a call of a function leaves as it is
callFrame == <<storeVars, histVars, fs, clock, edits, run, target, rt>>

\* the text of a pattern file of a frame: none, "a", "!a", "/a", "a/", "b", "!b"
FrameTexts ==
    {<< >>, <<97>>, <<33, 97>>, <<47, 97>>, <<97, 47>>, <<98>>, <<33, 98>>}

\* the patterns of the texts
FramePatterns == {parse(t).v : t \in FrameTexts}

\* the directory the i-th frame from the bottom is bound to when the scanner goes
\* down directories named "a": the bottom frame and the frame of the target root are
\* bound to the target root
FrameRoot(i) == [j \in 1..(IF i > 2 THEN i - 2 ELSE 0) |-> NameA]

\* the stacks of n frames
StacksOf(n) ==
    {[i \in 1..n |-> Frame(FrameRoot(i), pats[i])] : pats \in [1..n -> FramePatterns]}

Stacks == UNION {StacksOf(n) : n \in 1..MaxDepth}

\* the paths below the directory the top frame is bound to
PathsBelow(root) ==
    {root \o below : below \in SeqsUpTo({NameA, NameB}, MaxBelow) \ {<< >>}}

CallIgnored ==
    /\ call.fn = "none"
    /\ \E stack \in Stacks, is_dir \in BOOLEAN :
           \E path \in PathsBelow(stack[Len(stack)].root_path) :
               call' = [fn |-> "ignored",
                        in |-> [stack |-> stack, path |-> path, is_dir |-> is_dir],
                        out |-> ignored(stack, path, is_dir)]
    /\ UNCHANGED callFrame

IgnoredNext == CallIgnored

SpecIgnored == IgnoreInit /\ [][IgnoredNext]_vars

\* what the patterns of the i-th frame say of the path
FrameVerdict(stack, i, path, is_dir) ==
    matches(stack[i].patterns, from_path(stack[i].root_path, path, is_dir))

\* the frames that say Allowed or Ignored
Deciding(stack, path, is_dir) ==
    {i \in 1..Len(stack) : FrameVerdict(stack, i, path, is_dir) # "Parent"}

\* the frame nearest to the top among a set of frames
Nearest(frames) == CHOOSE i \in frames : \A j \in frames : j <= i

\* C11: IgnoreStack.ignored(path, is_dir) is decided by the nearest frame, going from
\* the current frame toward the bank-root frame, whose patterns give Allowed (not
\* ignored) or Ignored (ignored); when every frame gives Parent the entry is not
\* ignored.
C11_NearestFrameDecides ==
    call.fn = "ignored" =>
        LET stack == call.in.stack
            deciding == Deciding(stack, call.in.path, call.in.is_dir)
        IN  /\ call.out.st = "ok"
            /\ call.out.v =
                   (/\ deciding # {}
                    /\ FrameVerdict(stack, Nearest(deciding), call.in.path,
                                    call.in.is_dir) = "Ignored")

\* a stack of three frames: the top one gives Parent, the middle one Allowed, the
\* bottom one Ignored, and the entry is not ignored
C11_Witness ==
    /\ call.fn = "ignored"
    /\ Len(call.in.stack) = 3
    /\ FrameVerdict(call.in.stack, 3, call.in.path, call.in.is_dir) = "Parent"
    /\ FrameVerdict(call.in.stack, 2, call.in.path, call.in.is_dir) = "Allowed"
    /\ FrameVerdict(call.in.stack, 1, call.in.path, call.in.is_dir) = "Ignored"
    /\ ~call.out.v

\* the most patterns a list of patterns has
MaxPatterns == 3

\* the lines the patterns of a list come from: "a", "!a", "a/", "!b/", "b", "/a/b",
\* "!/a/b"
PatternLines ==
    {<<97>>, <<33, 97>>, <<97, 47>>, <<33, 98, 47>>, <<98>>, <<47, 97, 47, 98>>,
     <<33, 47, 97, 47, 98>>}

\* the lists of patterns: Patterns::new of the patterns of up to MaxPatterns lines
PatternLists == SeqsUpTo({parse_pattern(l).v : l \in PatternLines}, MaxPatterns)

\* the entries: EntryPath of a path of one or two components, file or directory
EntryPaths ==
    {[parts |-> p, is_dir |-> d] :
        p \in SeqsUpTo({NameA, NameB}, MaxBelow) \ {<< >>}, d \in BOOLEAN}

CallMatches ==
    /\ call.fn = "none"
    /\ \E patterns \in PatternLists, entry_path \in EntryPaths :
           call' = [fn |-> "matches",
                    in |-> [patterns |-> patterns, entry_path |-> entry_path],
                    out |-> matches(patterns, entry_path)]
    /\ UNCHANGED callFrame

MatchesNext == CallMatches

SpecMatches == IgnoreInit /\ [][MatchesNext]_vars

\* a pattern matches an entry: its parts match the path, and a dir-only pattern is
\* skipped for an entry that is no directory
MatchesEntry(pat, entry_path) ==
    /\ ~(pat.dir_only /\ ~entry_path.is_dir)
    /\ match_path(pat.parts, entry_path.parts)

\* the patterns of a list that match an entry, by their place in the list
Matching(patterns, entry_path) ==
    {i \in 1..Len(patterns) : MatchesEntry(patterns[i], entry_path)}

\* C12: Patterns.matches returns the verdict of the last pattern, in definition
\* order, that matches the entry (dir-only patterns are skipped for non-directory
\* entries), and Parent exactly when no pattern matches.
C12_LastMatchWins ==
    call.fn = "matches" =>
        LET patterns == call.in.patterns
            matching == Matching(patterns, call.in.entry_path)
            last == CHOOSE i \in matching : \A j \in matching : j <= i
        IN  /\ (call.out = "Parent") = (matching = {})
            /\ matching # {} =>
                   call.out = IF patterns[last].allow THEN "Allowed" ELSE "Ignored"

\* three patterns for a file: the first ignores it, the second allows it, the third
\* is dir-only and would ignore it; the verdict is Allowed
C12_Witness ==
    /\ call.fn = "matches"
    /\ Len(call.in.patterns) = 3
    /\ ~call.in.entry_path.is_dir
    /\ Matching(call.in.patterns, call.in.entry_path) = {1, 2}
    /\ ~call.in.patterns[1].allow /\ call.in.patterns[2].allow
    /\ call.in.patterns[3].dir_only /\ ~call.in.patterns[3].allow
    /\ match_path(call.in.patterns[3].parts, call.in.entry_path.parts)
    /\ call.out = "Allowed"

\* the most characters a line of a pattern file has
MaxLine == 4

\* the most components the path of an entry has
MaxPath == 3

\* the lines of a pattern file over the characters 'a', 'b', '*', '/', '!'
Lines == SeqsUpTo({97, 98, 42, 47, 33}, MaxLine)

\* the paths of the entries below the owning directory
Paths == SeqsUpTo({NameA, NameB}, MaxPath)

\* a line is parsed and the pattern asked about an entry
CallPattern ==
    /\ call.fn = "none"
    /\ \E line \in Lines, path \in Paths, is_dir \in BOOLEAN :
           \E pat \in {parse_pattern(line)} :
               call' = [fn |-> "pattern",
                        in |-> [line |-> line, path |-> path, is_dir |-> is_dir],
                        out |-> [st |-> pat.st,
                                 m |-> IF pat.st = "ok"
                                       THEN pattern_matches(pat.v, [parts |-> path,
                                                                    is_dir |-> is_dir])
                                       ELSE "Parent"]]
    /\ UNCHANGED callFrame

PatternNext == CallPattern

SpecPattern == IgnoreInit /\ [][PatternNext]_vars

\* the index of the first '/' of s, or Len(s) + 1
FirstSlash(s) ==
    CHOOSE k \in 1..(Len(s) + 1) :
        /\ k <= Len(s) => s[k] = 47
        /\ \A j \in 1..(k - 1) : s[j] # 47

\* the components of a line: what is between its slashes
RECURSIVE SplitAtSlash(_)
SplitAtSlash(s) ==
    IF s = << >> THEN << >>
    ELSE <<Take(s, FirstSlash(s) - 1)>> \o SplitAtSlash(Drop(s, FirstSlash(s)))

\* a line as the syntax reads it: allow rule, anchored, directories only, components
Syntax(line) ==
    LET allow == line # << >> /\ line[1] = 33
        l1 == IF allow THEN Tail(line) ELSE line
        anchored == l1 # << >> /\ l1[1] = 47
        l2 == IF anchored THEN Tail(l1) ELSE l1
        dir_only == l2 # << >> /\ l2[Len(l2)] = 47
        l3 == IF dir_only THEN Take(l2, Len(l2) - 1) ELSE l2
    IN  [allow |-> allow, anchored |-> anchored, dir_only |-> dir_only,
         comps |-> SplitAtSlash(l3)]

\* a component matches a name: "**" matches any, another component as a name pattern
CompMatches(c, name) ==
    IF c = <<42, 42>> THEN TRUE ELSE match_str(parse_name_pattern(c).v, name)

\* components match a path from the first one, "**" standing for zero or more
\* components of the path
RECURSIVE CompsMatch(_, _)
CompsMatch(comps, path) ==
    IF comps = << >> THEN path = << >>
    ELSE IF comps[1] = <<42, 42>>
    THEN \E k \in 0..Len(path) : CompsMatch(Tail(comps), Drop(path, k))
    ELSE /\ path # << >>
         /\ CompMatches(comps[1], path[1])
         /\ CompsMatch(Tail(comps), Tail(path))

\* the call of CallPattern matched the entry; a dir-only pattern is not asked about
\* an entry that is no directory
Asked == call.fn = "pattern" /\ ~(Syntax(call.in.line).dir_only /\ ~call.in.is_dir)

Matched == call.out.m # "Parent"

\* the pattern of the call cascades by the syntax: one component, no leading '/'
Cascades ==
    /\ ~Syntax(call.in.line).anchored
    /\ Len(Syntax(call.in.line).comps) = 1

\* C13: a pattern made of a single component with no leading '/' cascades: it
\* matches an entry at any depth below the owning directory whose final component
\* matches it.  A pattern with a leading '/', or with two or more components, never
\* cascades: it matches only an entry whose full component list relative to the
\* owning directory matches the pattern's components from the first one.
C13_Cascade ==
    Asked =>
        LET s == Syntax(call.in.line)
            path == call.in.path
        IN  /\ Cascades =>
                (Matched <=> (path # << >> /\ CompMatches(s.comps[1], path[Len(path)])))
            /\ (s.anchored \/ Len(s.comps) >= 2) =>
                (Matched => CompsMatch(s.comps, path))

\* C13 for the components that are name patterns: a cascading pattern whose
\* component is not "**" matches exactly the entries whose final component matches
\* it, and a pattern that does not cascade and has no "**" matches exactly the
\* entries whose components match it from the first one
CascadeOfNames ==
    Asked =>
        LET s == Syntax(call.in.line)
            path == call.in.path
        IN  /\ (Cascades /\ s.comps[1] # <<42, 42>>) =>
                (Matched <=> (path # << >> /\ CompMatches(s.comps[1], path[Len(path)])))
            /\ (s.anchored \/ Len(s.comps) >= 2) =>
                (Matched => CompsMatch(s.comps, path))
            /\ ((s.anchored \/ Len(s.comps) >= 2)
                    /\ \A i \in 1..Len(s.comps) : s.comps[i] # <<42, 42>>) =>
                (Matched <=> CompsMatch(s.comps, path))

\* the line "a" matches the entry b/a, the line "/a" does not
CascadeSeen ==
    /\ Asked /\ call.in.path = <<NameB, NameA>>
    /\ \/ call.in.line = <<97>> /\ Matched
       \/ call.in.line = <<47, 97>> /\ ~Matched

\* the most parts a pattern has
MaxParts == 3

\* the parts of a pattern: "**" and the name patterns "a", "b", "*"
PatternParts ==
    {AnyPath} \cup {Normal(parse_name_pattern(c).v) : c \in {<<97>>, <<98>>, <<42>>}}

CallMatchPath ==
    /\ call.fn = "none"
    /\ \E parts \in SeqsUpTo(PatternParts, MaxParts), path \in Paths :
           call' = [fn |-> "match_path",
                    in |-> [parts |-> parts, path |-> path],
                    out |-> match_path(parts, path)]
    /\ UNCHANGED callFrame

MatchPathNext == CallMatchPath

SpecMatchPath == IgnoreInit /\ [][MatchPathNext]_vars

\* the rest of the parts matches some suffix of the path, the empty one among them
RestMatchesSuffix(parts, path) ==
    \E k \in 0..Len(path) : match_path(Tail(parts), Drop(path, k))

\* C14: a "**" component matches zero or more path components: with "**" at the head
\* of the remaining pattern, match_path succeeds iff the rest of the pattern matches
\* some suffix of the remaining path, from the current position up to and including
\* the empty suffix.
C14_AnyPathZeroOrMore ==
    (call.fn = "match_path" /\ call.in.parts # << >> /\ call.in.parts[1].any) =>
        (call.out <=> RestMatchesSuffix(call.in.parts, call.in.path))

\* C14 where a name pattern follows the "**": the rest needs a component, so the
\* empty suffix is never the one that matches
AnyPathBeforeName ==
    (/\ call.fn = "match_path" /\ Len(call.in.parts) >= 2
     /\ call.in.parts[1].any /\ ~call.in.parts[2].any) =>
        (call.out <=> RestMatchesSuffix(call.in.parts, call.in.path))

\* "**/b" matches a/b by leaving out one component
AnyPathSeen ==
    /\ call.fn = "match_path"
    /\ call.in.parts = <<AnyPath, Normal(<<Str(NameB)>>)>>
    /\ call.in.path = <<NameA, NameB>>
    /\ call.out

\* the most parts a name pattern is made from
MaxNameParts == 3

\* the most characters a name has
MaxName == 5

\* the normalised name patterns: NamePattern::from_parts of up to MaxNameParts parts
\* over the literals "a" and "b", '?' and '*'
NamePatterns ==
    {NamePattern_from_parts(raw) :
        raw \in SeqsUpTo({Str(NameA), Str(NameB), AnyChar, AnyStr}, MaxNameParts)}

\* the names over the characters 'a' and 'b'
NameStrings == SeqsUpTo({97, 98}, MaxName)

CallMatchStr ==
    /\ call.fn = "none"
    /\ \E np \in NamePatterns, s \in NameStrings :
           call' = [fn |-> "match_str", in |-> [np |-> np, s |-> s],
                    out |-> match_str(np, s)]
    /\ UNCHANGED callFrame

MatchStrNext == CallMatchStr

SpecMatchStr == IgnoreInit /\ [][MatchStrNext]_vars

\* glob semantics by positions: from the positions of s reached so far, a literal
\* goes on over itself, '?' over one character, '*' to any position not before
GlobStep(part, s, from) ==
    IF part.k = "Str"
    THEN {i + Len(part.s) : i \in {j \in from : /\ j + Len(part.s) <= Len(s)
                                               /\ SubSeq(s, j + 1, j + Len(part.s)) = part.s}}
    ELSE IF part.k = "AnyChar" THEN {i + 1 : i \in {j \in from : j < Len(s)}}
    ELSE {j \in 0..Len(s) : \E i \in from : i <= j}

RECURSIVE GlobEnds(_, _, _)
GlobEnds(parts, s, from) ==
    IF parts = << >> THEN from
    ELSE GlobEnds(Tail(parts), s, GlobStep(parts[1], s, from))

\* the pattern matches the whole string
Glob(parts, s) == Len(s) \in GlobEnds(parts, s, {0})

\* C15: for every normalised name pattern and every string over a bounded alphabet,
\* match_str agrees with the reference glob semantics on the whole string: a literal
\* matches itself, '?' matches exactly one character, '*' matches zero or more
\* characters.
C15_GlobSemantics ==
    call.fn = "match_str" => (call.out <=> Glob(call.in.np, call.in.s))

\* "a*a" matches "aaaa", where the '*' has to take two characters
C15_Witness ==
    /\ call.fn = "match_str"
    /\ call.in.np = <<Str(NameA), AnyStr, Str(NameA)>>
    /\ call.in.s = <<97, 97, 97, 97>>
    /\ call.out

\* the examples: "a?a" matches "aba" but not "aa" or "aaaa"; "a*a" matches "aa",
\* "aba", "aaaa" and rejects "a", "baa", "aaaab"
GlobExamples ==
    /\ (call.fn = "match_str" /\ call.in.np = <<Str(NameA), AnyChar, Str(NameA)>>) =>
           /\ call.in.s = <<97, 98, 97>> => call.out
           /\ call.in.s \in {<<97, 97>>, <<97, 97, 97, 97>>} => ~call.out
    /\ (call.fn = "match_str" /\ call.in.np = <<Str(NameA), AnyStr, Str(NameA)>>) =>
           /\ call.in.s \in {<<97, 97>>, <<97, 98, 97>>, <<97, 97, 97, 97>>} => call.out
           /\ call.in.s \in {<<97>>, <<98, 97, 97>>, <<97, 97, 97, 97, 98>>} => ~call.out

\* the most characters a component of a pattern has
MaxComponent == 4

\* the components over the characters 'a', '?', '*', '\'
ComponentStrings == SeqsUpTo({97, 63, 42, 92}, MaxComponent)

CallParseName ==
    /\ call.fn = "none"
    /\ \E input \in ComponentStrings :
           call' = [fn |-> "parse_name_pattern", in |-> input,
                    out |-> parse_name_pattern(input)]
    /\ UNCHANGED callFrame

ParseNameNext == CallParseName

SpecParseName == IgnoreInit /\ [][ParseNameNext]_vars

\* a component read character by character: an escape is the literal of its second
\* character, '?' and '*' stand for themselves, any other character is a literal,
\* a backslash that starts no escape is "bad" and ends the reading
RECURSIVE Tokens(_)
Tokens(s) ==
    IF s = << >> THEN << >>
    ELSE IF s[1] = 92
    THEN IF Len(s) >= 2 /\ s[2] \in {92, 63, 42}
         THEN <<[t |-> "lit", c |-> s[2]]>> \o Tokens(Drop(s, 2))
         ELSE <<[t |-> "bad", c |-> 92]>>
    ELSE IF s[1] \in {63, 42} THEN <<[t |-> "wild", c |-> s[1]]>> \o Tokens(Tail(s))
    ELSE <<[t |-> "lit", c |-> s[1]]>> \o Tokens(Tail(s))

\* the tokens without every '*' that follows a '*'
RECURSIVE OneStar(_)
OneStar(ts) ==
    IF Len(ts) < 2 THEN ts
    ELSE IF ts[1] = [t |-> "wild", c |-> 42] /\ ts[2] = ts[1] THEN OneStar(Tail(ts))
    ELSE <<ts[1]>> \o OneStar(Tail(ts))

\* the tokens the parts of a name pattern stand for
RECURSIVE Spelled(_)
Spelled(parts) ==
    IF parts = << >> THEN << >>
    ELSE (IF parts[1].k = "Str"
          THEN [i \in 1..Len(parts[1].s) |-> [t |-> "lit", c |-> parts[1].s[i]]]
          ELSE IF parts[1].k = "AnyChar" THEN <<[t |-> "wild", c |-> 63]>>
          ELSE <<[t |-> "wild", c |-> 42]>>) \o Spelled(Tail(parts))

\* no empty literal, no two literals and no two AnyStr next to each other
Merged(parts) ==
    /\ \A i \in 1..Len(parts) : parts[i].k = "Str" => parts[i].s # << >>
    /\ \A i \in 1..(Len(parts) - 1) :
           /\ ~(parts[i].k = "Str" /\ parts[i + 1].k = "Str")
           /\ ~(parts[i].k = "AnyStr" /\ parts[i + 1].k = "AnyStr")

\* C16: parse_name_pattern on a component string: "\\", "\?", "\*" contribute the
\* literal characters '\', '?', '*'; an unescaped '?' becomes AnyChar and an
\* unescaped '*' AnyStr; adjacent literal runs are merged into one literal and
\* adjacent '*' into one; it fails with InvalidPattern exactly when the string
\* contains a backslash that does not start one of those three escapes.
C16_ParseNamePattern ==
    call.fn = "parse_name_pattern" =>
        LET ts == Tokens(call.in)
            bad == \E i \in 1..Len(ts) : ts[i].t = "bad"
        IN  /\ bad <=> call.out = InvalidPattern
            /\ ~bad => /\ call.out.st = "ok"
                       /\ Merged(call.out.v)
                       /\ Spelled(call.out.v) = OneStar(ts)

\* "a\?**" is the literal "a?" and one AnyStr
C16_Witness ==
    /\ call.fn = "parse_name_pattern"
    /\ call.in = <<97, 92, 63, 42>>
    /\ call.out = ParseOk(<<Str(<<97, 63>>), AnyStr>>)

\* the cases of the tests of the parser: "\", "\\\" and "\a" fail; "a**" is "a" and
\* one AnyStr, "?*" is AnyChar and AnyStr
ParseNameTests ==
    call.fn = "parse_name_pattern" =>
        /\ call.in \in {<<92>>, <<92, 92, 92>>, <<92, 97>>} => call.out = InvalidPattern
        /\ call.in = <<97, 42, 42>> => call.out = ParseOk(<<Str(<<97>>), AnyStr>>)
        /\ call.in = <<63, 42>> => call.out = ParseOk(<<AnyChar, AnyStr>>)

\* the most components an entry has after its first one
MaxEntry == 4

\* the roots: the empty path, "/", "/r" and the relative path "a"
Roots == {<< >>, <<RootDir>>, <<RootDir, RootName>>, <<NameA>>}

\* the entries as Path::components gives them: "/" and "." come first or not at
\* all, names and ".." follow
Entries ==
    {lead \o rest : lead \in {<< >>, <<RootDir>>, <<CurDir>>},
                    rest \in SeqsUpTo({NameA, RootName, ParentDir}, MaxEntry)}

CallFromPath ==
    /\ call.fn = "none"
    /\ \E root \in Roots, entry \in Entries, is_dir \in BOOLEAN :
           call' = [fn |-> "from_path",
                    in |-> [root |-> root, entry |-> entry, is_dir |-> is_dir],
                    out |-> from_path(root, entry, is_dir)]
    /\ UNCHANGED callFrame

FromPathNext == CallFromPath

SpecFromPath == IgnoreInit /\ [][FromPathNext]_vars

\* how deep below the root the first k components of a relative path lead: a name
\* goes down, ".." goes up
DepthAt(relative, k) ==
    Cardinality({i \in 1..k : relative[i] # ParentDir})
        - Cardinality({i \in 1..k : relative[i] = ParentDir})

\* the places of the names no later ".." cancels: the path never comes back above
\* the depth the name led to
Kept(relative) ==
    {i \in 1..Len(relative) :
        /\ relative[i] # ParentDir
        /\ \A j \in i..Len(relative) : DepthAt(relative, j) >= DepthAt(relative, i)}

\* the names at a set of places, in their order
RECURSIVE NamesAt(_, _)
NamesAt(relative, places) ==
    IF places = {} THEN << >>
    ELSE LET last == CHOOSE i \in places : \A j \in places : j <= i
         IN  Append(NamesAt(relative, places \ {last}), relative[last])

\* C17: EntryPath::from_path(root, entry) yields the components of entry relative to
\* root, each ".." cancelling the component before it (the empty list when entry
\* equals root); it fails with NotChild when entry is not under root or when a ".."
\* would pop past root, and with an error for any other non-normal component.
C17_FromPath ==
    call.fn = "from_path" =>
        LET root == call.in.root
            entry == call.in.entry
            under == StartsWith(entry, root)
            relative == Drop(entry, Len(root))
            other == under /\ \E i \in 1..Len(relative) : relative[i] \in {CurDir, RootDir}
            past == under /\ \E k \in 1..Len(relative) : DepthAt(relative, k) < 0
        IN  /\ ~under => call.out.st = "NotChild"
            /\ other => call.out.st = "UnexpectedComponent"
            /\ (past /\ ~other) => call.out.st = "NotChild"
            /\ (under /\ ~other /\ ~past) =>
                   call.out = [st |-> "ok", parts |-> NamesAt(relative, Kept(relative)),
                               is_dir |-> call.in.is_dir]
            /\ entry = root => call.out.st = "ok" /\ call.out.parts = << >>

\* root "/r", entry "/r/r/../a": the part is "a"
C17_Witness ==
    /\ call.fn = "from_path"
    /\ call.in.root = <<RootDir, RootName>>
    /\ call.in.entry = <<RootDir, RootName, RootName, ParentDir, NameA>>
    /\ call.out.st = "ok" /\ call.out.parts = <<NameA>>

\* root "/r", entry "/r/../a": NotChild, as in the test of the source
PopsPastRoot ==
    (/\ call.fn = "from_path" /\ call.in.root = <<RootDir, RootName>>
     /\ call.in.entry = <<RootDir, RootName, ParentDir, NameA>>) =>
        call.out.st = "NotChild"

(***************************************************************************)
(* SpecExtend: a tree is backed up and the last scan is restored into a    *)
(* directory that holds files and directories already.                     *)
(***************************************************************************)
\* the body of the files the target holds before: no file of a backed up tree has it
OldBytes == RawBytes(<<9>>)

\* what is in the target directory before the restore: files, last modified at
\* second 1, and directories, some with the name and the kind of an entry of the
\* snapshot, some with the name and another kind, some with a name the snapshot does
\* not hold
TargetTrees ==
    {EmptyTree(0) @@ t : t \in
        { [p \in {} |-> DirNode(0)],
          <<NameA>> :> FileNode(OldBytes, FALSE, 1),
          <<NameA>> :> DirNode(0),
          (<<NameA>> :> DirNode(0)) @@ (<<NameA, NameB>> :> FileNode(OldBytes, TRUE, 1)),
          (<<NameA>> :> FileNode(OldBytes, FALSE, 1))
              @@ (<<IGNORE_FILE>> :> FileNode(OldBytes, FALSE, 1)),
          (<<NameB>> :> DirNode(0)) @@ (<<NameB, NameA>> :> FileNode(OldBytes, FALSE, 1)) }}

\* Extender::new, allow_overwrite, allow_remove, then extend of last_scan() into the
\* directory
Extend(start, overwrite, remove) ==
    /\ rt.n = 0
    /\ lastScanFile # << >>
    /\ \E r \in {extend(start, objects, last_scan(lastScanFile).v[1],
                          overwrite, remove, clock)} :
           /\ target' = r.tree
           /\ rt' = [n |-> 1, ok |-> r.ok, name |-> RootName, at |-> clock,
                     symlinks |-> r.symlinks, root |-> << >>,
                     before |-> start, overwrite |-> overwrite, remove |-> remove]
    /\ UNCHANGED <<fs, clock, edits, run, storeVars, histVars, call>>

ExtendNext ==
    \/ Tick
    \/ \E order \in SomeOrders : Backup(order)
    \/ \E start \in TargetTrees, overwrite \in BOOLEAN, remove \in BOOLEAN :
           Extend(start, overwrite, remove)

SpecExtend == BackupInit /\ [][ExtendNext]_vars

\* every file and directory of before is in after, of the same kind, a file with
\* the same bytes
Untouched(before, after) ==
    \A p \in DOMAIN before :
        /\ p \in DOMAIN after
        /\ after[p].kind = before[p].kind
        /\ after[p].content = before[p].content

\* C18: with allow_overwrite = false and allow_remove = false (the defaults), extend
\* never changes the content of, nor deletes, any file or directory that existed
\* under the target before the call: existing files named in the snapshot are
\* skipped and entries absent from the snapshot are left in place.
C18_DefaultsKeepTarget ==
    (rt.n = 1 /\ ~rt.overwrite /\ ~rt.remove) => Untouched(rt.before, target)

\* a restore with the defaults that made something new, into a directory that held
\* a file "a" with other bytes than the snapshot's file "a" and an entry the
\* snapshot does not hold
C18_Witness ==
    /\ rt.n = 1 /\ rt.ok /\ ~rt.overwrite /\ ~rt.remove
    /\ <<NameA>> \in DOMAIN rt.before /\ <<NameA>> \in DOMAIN fs
    /\ rt.before[<<NameA>>].kind = "file" /\ fs[<<NameA>>].kind = "file"
    /\ fs[<<NameA>>].content # rt.before[<<NameA>>].content
    /\ \E p \in DOMAIN rt.before : p \notin DOMAIN fs
    /\ \E p \in DOMAIN target : p \notin DOMAIN rt.before

\* with overwrite or remove set a restore changes or deletes what was there
FlagsChangeTarget ==
    /\ rt.n = 1 /\ rt.ok /\ (rt.overwrite \/ rt.remove)
    /\ ~Untouched(rt.before, target)

(***************************************************************************)
(* SpecFaults: backups of a tree in which opening a file or reading a      *)
(* directory can fail.                                                     *)
(***************************************************************************)
\* the most nodes of the tree that are made to fail
MaxFaults == 2

\* the trees: two files; a directory with a file and a pattern file beside it; a
\* directory that holds a pattern file and a directory with a file
FaultTrees ==
    {EmptyTree(0) @@ t : t \in
        { (<<NameA>> :> FileNode(RawBytes(<<1>>), FALSE, 0))
              @@ (<<NameB>> :> FileNode(RawBytes(<<2>>), FALSE, 0)),
          (<<NameA>> :> DirNode(0))
              @@ (<<NameA, NameB>> :> FileNode(RawBytes(<<1>>), FALSE, 0))
              @@ (<<IGNORE_FILE>> :> FileNode(RawBytes(<<98>>), FALSE, 0)),
          (<<NameA>> :> DirNode(0))
              @@ (<<NameA, IGNORE_FILE>> :> FileNode(RawBytes(<<98>>), FALSE, 0))
              @@ (<<NameA, NameA>> :> DirNode(0))
              @@ (<<NameA, NameA, NameA>> :> FileNode(RawBytes(<<1>>), FALSE, 0))
              @@ (<<NameB>> :> FileNode(RawBytes(<<2>>), FALSE, 0)) }}

FaultInit ==
    /\ objects = NoObjects /\ wr = [w \in Writers |-> IdleWriter] /\ opened = NothingOpened
    /\ histFiles = << >> /\ lastScanFile = << >> /\ sh = IdleSave /\ calls = << >>
    /\ listed = NothingListed
    /\ fs \in FaultTrees
    /\ clock = 0 /\ edits = 0 /\ run = NoRun /\ target = << >> /\ rt = NoRestore
    /\ call = NoCall /\ sealed = {}

\* from now on opening the file at p, or reading the directory at p, fails: with
\* PermissionDenied or with an io::Error of another kind
Fault(p, kind) ==
    /\ edits < MaxFaults
    /\ p \in DOMAIN fs /\ fs[p].kind \in {"file", "dir"} /\ fs[p].access = "ok"
    /\ fs' = [fs EXCEPT ![p].access = kind]
    /\ edits' = edits + 1
    /\ UNCHANGED <<clock, run, target, rt, storeVars, histVars, call>>

FaultNext ==
    \/ \E p \in SeqsUpTo(Names, 3), kind \in {"denied", "ioerr"} : Fault(p, kind)
    \/ \E order \in SomeOrders : Backup(order)

SpecFaults == FaultInit /\ [][FaultNext]_vars

\* the tree without the nodes at the paths, and without what is below them
Pruned(tree, paths) ==
    [q \in {q \in DOMAIN tree : \A p \in paths : ~StartsWith(q, p)} |-> tree[q]]

\* a backup step whose scan met an io::Error
MetErrors == run'.n = run.n + 1 /\ run'.met # {}

\* what the scan gives for the tree without the nodes whose errors were met
WithoutDenied(order) ==
    scan(Pruned(fs, {m.p : m \in run'.met}), RootName, objects, sealed, lastScanFile,
         order)

\* the errors are swallowed: the scan returns the root hash of the tree without the
\* nodes that met them
Swallowed ==
    /\ run'.ok
    /\ \A order \in SomeOrders :
           WithoutDenied(order).st = "ok" /\ WithoutDenied(order).hash = run'.root

\* C19: during a scan, a permission-denied I/O error met while scanning a non-root
\* node causes exactly that node (with its subtree) to be omitted from its parent's
\* children while the scan continues and returns a root hash; any other I/O error
\* on any node aborts the whole scan with an error.
C19_PermissionDeniedOmits ==
    [][MetErrors =>
          /\ (\E m \in run'.met : m.kind = "ioerr") => ~run'.ok
          /\ (\A m \in run'.met : m.kind = "denied" /\ m.p # << >>) => Swallowed]_vars

\* C19 for the errors of opening a file and of reading a directory: the error of
\* opening the pattern file of a directory is left out
OmitsUnreadable ==
    [][MetErrors =>
          /\ (\E m \in run'.met : m.kind = "ioerr") => ~run'.ok
          /\ (\A m \in run'.met : /\ m.kind = "denied" /\ m.p # << >>
                                  /\ m.op # "load_patterns") => Swallowed]_vars

\* a scan that left out a directory it could not read, and a file, and returned a
\* root hash
OmittedSeen ==
    /\ run.n > 0 /\ run.ok
    /\ \E m \in run.met : m.op = "read_dir"
    /\ \E m \in run.met : m.op = "open"

\* a scan that PermissionDenied for the pattern file of a directory ended
AbortSeen ==
    /\ run.n > 0 /\ ~run.ok
    /\ run.met # {}
    /\ \A m \in run.met : m.kind = "denied" /\ m.p # << >>

\* a step that is a backup
BackupStep == run'.n = run.n + 1

\* C20: Scanner.scan never creates or modifies a history file or last_scan.json;
\* consequently, when the scan of a backup fails, histories() and last_scan() of the
\* bank are the same as before that backup, and a record is written only after scan
\* has returned a root hash.
C20_FailedScanNoRecord ==
    [][BackupStep =>
          /\ ~run'.ok => histFiles' = histFiles /\ lastScanFile' = lastScanFile
          /\ (histFiles' # histFiles \/ lastScanFile' # lastScanFile) =>
                 /\ run'.ok /\ run'.root # << >>
                 /\ last_scan(lastScanFile').v[1].id = run'.root[1].id]_vars

\* a backup that failed after a backup that was recorded, a second later: the one
\* record is still the only one
C20_Witness ==
    /\ run.n = 2 /\ ~run.ok
    /\ Len(calls) = 1 /\ lastScanFile # << >>
    /\ calls[1].timestamp < clock
    /\ last_scan(lastScanFile).v[1].id = run.before[1].id

(***************************************************************************)
(* The order of the writes of one scan (SpecBackup).                       *)
(***************************************************************************)
\* the ids the store held when the i-th write of the last scan began
HeldBefore(i) ==
    (DOMAIN objects \ run.fresh) \cup {run.written[j] : j \in 1..(i - 1)}

\* the children of the directory whose object the i-th write of the last scan wrote
ChildrenWritten(i) == load_entry(objects, run.written[i]).v.children

\* C21: within one scan, the object of a directory is written to the store only
\* after the objects of all entries scanned beneath it have been written
\* (post-order); hence whenever a directory object written by the scan exists,
\* every child id it references already exists in the store.
C21_PostOrder ==
    \A i \in run.dirs :
        \A k \in 1..Len(ChildrenWritten(i)) : ChildrenWritten(i)[k].id \in HeldBefore(i)

\* the same, for the behaviours in which no scan gave scan_dir the id of a prior
\* entry that was a file or a symlink
PostOrderWithDirPriors == ~run.nondir => C21_PostOrder

\* every object the scan added to the store for an entry of a directory was written
\* before the object of the directory
ChildrenWrittenFirst ==
    \A i \in run.dirs :
        \A k \in 1..Len(ChildrenWritten(i)) :
            ChildrenWritten(i)[k].id \in run.fresh =>
                \E j \in 1..(i - 1) : run.written[j] = ChildrenWritten(i)[k].id

\* a scan wrote the object of a directory below the target after the objects of two
\* files in it, and the object of the target after that
PostOrderSeen ==
    /\ run.ok /\ Cardinality(run.dirs) = 2
    /\ \E i \in run.dirs :
          /\ i > 2 /\ i < Len(run.written)
          /\ Len(ChildrenWritten(i)) = 2
          /\ \A k \in 1..2 : ChildrenWritten(i)[k].id \in run.fresh

(***************************************************************************)
(* SpecNested: trees with pattern files in the target directory and in the *)
(* directories below it are scanned into a new repository.                 *)
(***************************************************************************)
\* the bodies of the pattern files: "b", "/b", "b/", "!b"
NestedContents ==
    {RawBytes(<<98>>), RawBytes(<<47, 98>>), RawBytes(<<98, 47>>), RawBytes(<<33, 98>>)}

\* nothing, or a pattern file in the directory d
PatternFileIn(d) ==
    {[p \in {} |-> DirNode(0)]}
        \cup {Append(d, IGNORE_FILE) :> FileNode(c, FALSE, 0) : c \in NestedContents}

\* the directory d with a file "b" in it, and with or without a pattern file
DirWithB(d) ==
    {(d :> DirNode(0)) @@ (Append(d, NameB) :> FileNode(RawBytes(<<1>>), FALSE, 0)) @@ i :
        i \in PatternFileIn(d)}

\* the trees: with or without a file "b" in the target directory; "a" a file, or a
\* directory with a file "b", with or without a directory "a" of the same make in it
NestedTrees ==
    {EmptyTree(0) @@ i @@ b @@ a :
        i \in PatternFileIn(<< >>),
        b \in {[p \in {} |-> DirNode(0)], <<NameB>> :> FileNode(RawBytes(<<2>>), FALSE, 0)},
        a \in {<<NameA>> :> FileNode(RawBytes(<<1>>), FALSE, 0)}
                 \cup DirWithB(<<NameA>>)
                 \cup {x @@ y : x \in DirWithB(<<NameA>>), y \in DirWithB(<<NameA, NameA>>)}}

NestedInit ==
    /\ objects = NoObjects /\ wr = [w \in Writers |-> IdleWriter] /\ opened = NothingOpened
    /\ histFiles = << >> /\ lastScanFile = << >> /\ sh = IdleSave /\ calls = << >>
    /\ listed = NothingListed
    /\ fs \in NestedTrees
    /\ clock = 0 /\ edits = 0 /\ run = NoRun /\ target = << >> /\ rt = NoRestore
    /\ call = NoCall /\ sealed = {}

NestedNext == \E order \in Orders : ScanClean(order)

SpecNested == NestedInit /\ [][NestedNext]_vars

\* the paths of the entries below the directory entry id, which is at p
RECURSIVE PathsOf(_, _, _)
PathsOf(objs, p, id) ==
    LET children == load_entry(objs, id).v.children
    IN  UNION {{Append(p, children[k].attr.name)}
                   \cup (IF children[k].type = "dir"
                         THEN PathsOf(objs, Append(p, children[k].attr.name), children[k].id)
                         ELSE {}) : k \in 1..Len(children)}

\* the paths of the entries of the snapshot the last scan returned
Snapshot == PathsOf(objects, << >>, run.root[1].id)

\* the directories the last scan scanned: the target and the directories of the
\* snapshot
ScannedDirs == {<< >>} \cup {d \in Snapshot : fs[d].kind = "dir"}

\* the patterns parsed from .sbakignore of the directory d, none when it is absent
PatternsIn(d) ==
    IF Append(d, IGNORE_FILE) \in DOMAIN fs
    THEN parse(fs[Append(d, IGNORE_FILE)].content.raw).v
    ELSE << >>

\* what the patterns of the directory d say of the entry c, relative to d
SaysOf(d, c, is_dir) == matches(PatternsIn(d), from_path(d, c, is_dir))

\* the entry c of the directory d is ignored: the nearest of d and the directories
\* above it whose patterns say Ignored or Allowed of c says Ignored
IgnoredIn(d, c, is_dir) ==
    \E k \in 0..Len(d) :
        /\ SaysOf(Take(d, k), c, is_dir) = "Ignored"
        /\ \A m \in (k + 1)..Len(d) : SaysOf(Take(d, m), c, is_dir) = "Parent"

\* C22: for every directory D scanned, root or nested, the IgnoreStack frame used
\* to classify D's children carries exactly the patterns parsed from D/.sbakignore
\* (empty when that file is absent) and interprets them relative to D; in
\* particular a file matching a pattern in D/.sbakignore is omitted from the
\* snapshot.  An entry that is ignored with either is-directory flag is not in the
\* snapshot, an entry that is ignored with neither is.
C22_FrameOfDirectory ==
    run.ok =>
        \A d \in ScannedDirs : \A n \in ChildNames(fs, d) :
            /\ (\A is_dir \in BOOLEAN : IgnoredIn(d, Append(d, n), is_dir))
                   => Append(d, n) \notin Snapshot
            /\ (\A is_dir \in BOOLEAN : ~IgnoredIn(d, Append(d, n), is_dir))
                   => Append(d, n) \in Snapshot

\* the same for the entries of the target directory alone
FrameOfTarget ==
    run.ok =>
        \A n \in ChildNames(fs, << >>) :
            /\ (\A is_dir \in BOOLEAN : IgnoredIn(<< >>, <<n>>, is_dir)) => <<n>> \notin Snapshot
            /\ (\A is_dir \in BOOLEAN : ~IgnoredIn(<< >>, <<n>>, is_dir)) => <<n>> \in Snapshot

\* the target holds "b" and a pattern file with the line "b": the scan left "b" out
\* of the snapshot, and kept the pattern file
TargetPatternSeen ==
    /\ run.ok
    /\ {<<NameB>>, <<IGNORE_FILE>>} \subseteq DOMAIN fs
    /\ fs[<<IGNORE_FILE>>].content.raw = <<98>>
    /\ <<NameB>> \notin Snapshot /\ <<IGNORE_FILE>> \in Snapshot

\* the directory "a" holds "b" and a pattern file with the line "b", the target has
\* no pattern file: the scan kept a/b in the snapshot
NestedPatternUnread ==
    /\ run.ok
    /\ {<<NameA, NameB>>, <<NameA, IGNORE_FILE>>} \subseteq DOMAIN fs
    /\ <<IGNORE_FILE>> \notin DOMAIN fs
    /\ fs[<<NameA, IGNORE_FILE>>].content.raw = <<98>>
    /\ <<NameA, NameB>> \in Snapshot

\* the stack of frames scan_dir of the directory d makes for its children
RECURSIVE StackOf(_)
StackOf(d) ==
    IF d = << >> THEN child(IgnoreStackNew(BankPatterns), fs, RootName).v
    ELSE child(StackOf(Parent(d)), fs, d[Len(d)]).v

\* C23: scan_dir classifies each child with that child's own is-directory flag, so
\* a directory-only pattern (trailing `/`) never excludes a non-directory: a
\* regular file named `x` under a frame whose only pattern is `x/` is still
\* included in the snapshot.
C23_OwnDirFlag ==
    run.ok =>
        \A d \in ScannedDirs : \A n \in ChildNames(fs, d) :
            (fs[Append(d, n)].kind # "dir"
                /\ ~ignored(StackOf(d), Append(d, n), FALSE).v)
                   => Append(d, n) \in Snapshot

\* a directory is in the snapshot when the frames of its directory do not ignore
\* it as a directory, and only then
DirsByDirFlag ==
    run.ok =>
        \A d \in ScannedDirs : \A n \in ChildNames(fs, d) :
            fs[Append(d, n)].kind = "dir" =>
                (Append(d, n) \in Snapshot <=> ~ignored(StackOf(d), Append(d, n), TRUE).v)

\* the target holds a regular file "b" and a pattern file with the one line "b/":
\* the scan left the file out of the snapshot
FileTakenForDir ==
    /\ run.ok
    /\ {<<NameB>>, <<IGNORE_FILE>>} \subseteq DOMAIN fs
    /\ fs[<<NameB>>].kind = "file"
    /\ fs[<<IGNORE_FILE>>].content.raw = <<98, 47>>
    /\ <<NameB>> \notin Snapshot

(***************************************************************************)
(* SpecBuild: DirEntryBuilder::build, called once on children appended in  *)
(* any order.                                                              *)
(***************************************************************************)
\* the most children appended to a builder
MaxChildren == 2

\* the references appended: of every type, two names, both readonly flags, two
\* modification times, two ids
ChildRefs ==
    {FsHash(type, Attributes(name, readonly, modified), id) :
        type \in {"dir", "file", "symlink"}, name \in {NameA, NameB},
        readonly \in BOOLEAN, modified \in {0, 1},
        id \in {Digest(RawBytes(<<1>>)), Digest(RawBytes(<<2>>))}}

CallBuild ==
    /\ call.fn = "none"
    /\ \E children \in SeqsUpTo(ChildRefs, MaxChildren) :
           call' = [fn |-> "build", in |-> children,
                    out |-> build(Attributes(RootName, FALSE, 0), children)]
    /\ UNCHANGED callFrame

BuildNext == CallBuild

SpecBuild == IgnoreInit /\ [][BuildNext]_vars

\* a is before b by attr (name, then readonly, then modified), then by id
AttrThenIdBefore(a, b) ==
    \/ StrLess(a.attr.name, b.attr.name)
    \/ /\ a.attr.name = b.attr.name
       /\ \/ (~a.attr.readonly /\ b.attr.readonly)
          \/ /\ a.attr.readonly = b.attr.readonly
             /\ \/ a.attr.modified < b.attr.modified
                \/ a.attr.modified = b.attr.modified /\ HashIDLess(a.id, b.id)

\* the place of a reference's type among dir, file, symlink
TypePlace(r) == CHOOSE k \in 1..3 : <<"dir", "file", "symlink">>[k] = r.type

\* a is before b by type (dir, file, symlink), then by attr, then by id
TypeThenAttrThenIdBefore(a, b) ==
    \/ TypePlace(a) < TypePlace(b)
    \/ TypePlace(a) = TypePlace(b) /\ AttrThenIdBefore(a, b)

\* the children of the built entry are the appended ones, each as often
SameChildren ==
    \A r \in ChildRefs :
        Cardinality({i \in 1..Len(call.in) : call.in[i] = r})
            = Cardinality({i \in 1..Len(call.out.children) : call.out.children[i] = r})

\* C24: in every DirEntry produced by DirEntryBuilder.build, and so in every
\* directory object a scan writes, the children are in ascending order of
\* attributes (name, then readonly, then modified) with ties broken by id,
\* irrespective of whether each child is a dir, file or symlink reference.
C24_ChildrenByAttrThenId ==
    call.fn = "build" =>
        \A i, j \in 1..Len(call.out.children) :
            i < j => ~AttrThenIdBefore(call.out.children[j], call.out.children[i])

\* C24 as amended: the children are the appended references in ascending order of
\* type (dir before file before symlink), then of attributes (name, then readonly,
\* then modified), then of id.
C24_ChildrenByTypeThenAttrThenId ==
    call.fn = "build" =>
        /\ SameChildren
        /\ \A i, j \in 1..Len(call.out.children) :
               i < j => ~TypeThenAttrThenIdBefore(call.out.children[j], call.out.children[i])

\* the file "a" was appended before the directory "b": the built entry has the
\* directory first
C24_Witness ==
    /\ call.fn = "build" /\ Len(call.in) = 2
    /\ call.in[1].type = "file" /\ call.in[1].attr.name = NameA
    /\ call.in[2].type = "dir" /\ call.in[2].attr.name = NameB
    /\ call.out.children = <<call.in[2], call.in[1]>>

\* the same of the objects of directories in the store after a scan
DirObjectsByTypeThenAttrThenId ==
    \A id \in DOMAIN objects :
        objects[id].fmt = "dir" =>
            \A i, j \in 1..Len(objects[id].children) :
                i < j => ~TypeThenAttrThenIdBefore(objects[id].children[j],
                                                   objects[id].children[i])

\* the original C24 of the objects of directories in the store after a scan
DirObjectsByAttrThenId ==
    \A id \in DOMAIN objects :
        objects[id].fmt = "dir" =>
            \A i, j \in 1..Len(objects[id].children) :
                i < j => ~AttrThenIdBefore(objects[id].children[j], objects[id].children[i])

(***************************************************************************)
(* What a restore wrote (SpecExtend).                                      *)
(***************************************************************************)
\* the references below the directory entry id, which is at p, each with its path
RECURSIVE RefsOf(_, _, _)
RefsOf(objs, p, id) ==
    LET children == IF load_entry(objs, id).ok THEN load_entry(objs, id).v.children
                    ELSE << >>
    IN  UNION {{[path |-> Append(p, children[k].attr.name), ref |-> children[k]]}
                   \cup (IF children[k].type = "dir"
                         THEN RefsOf(objs, Append(p, children[k].attr.name), children[k].id)
                         ELSE {}) : k \in 1..Len(children)}

\* the files of the snapshot that was restored
RestoredFiles ==
    {e \in RefsOf(objects, << >>, last_scan(lastScanFile).v[1].id) : e.ref.type = "file"}

\* extend_file wrote the file: the target had nothing at the path, or overwrite was
\* set and the file there had another modification time than the snapshot's
WroteFile(e) ==
    \/ e.path \notin DOMAIN rt.before
    \/ /\ rt.overwrite
       /\ rt.before[e.path].kind = "file"
       /\ rt.before[e.path].modified # e.ref.attr.modified

\* C25: whenever extend_file writes a file (target absent, or target present with
\* allow_overwrite and a modification time different from the snapshot's),
\* afterwards the target file's content equals the object's bytes and both its
\* readonly flag and its modification time equal the snapshot attributes.
C25_WrittenFileAsSnapshot ==
    (rt.n = 1 /\ rt.ok) =>
        \A e \in RestoredFiles :
            WroteFile(e) =>
                /\ target[e.path].kind = "file"
                /\ target[e.path].content = objects[e.ref.id]
                /\ target[e.path].readonly = e.ref.attr.readonly
                /\ target[e.path].modified = e.ref.attr.modified

\* the same without the readonly flag
WrittenFileBytesAndTime ==
    (rt.n = 1 /\ rt.ok) =>
        \A e \in RestoredFiles :
            WroteFile(e) =>
                /\ target[e.path].kind = "file"
                /\ target[e.path].content = objects[e.ref.id]
                /\ target[e.path].modified = e.ref.attr.modified

\* a restore made a file that is read-only in the snapshot, and replaced the bytes
\* of another
WrittenSeen ==
    /\ rt.n = 1 /\ rt.ok /\ rt.overwrite
    /\ \E e \in RestoredFiles :
          e.path \notin DOMAIN rt.before /\ e.ref.attr.readonly /\ ~target[e.path].readonly
    /\ \E e \in RestoredFiles :
          /\ e.path \in DOMAIN rt.before /\ WroteFile(e)
          /\ rt.before[e.path].content # target[e.path].content

(***************************************************************************)
(* SpecParse: parse, called once on the text of a pattern file.            *)
(***************************************************************************)
\* the most characters of a pattern file
MaxText == 4

\* the texts over 'a', '*', '?', '/', '\', '#' and the line feed
Texts == SeqsUpTo({97, 42, 63, 47, 92, 35, 10}, MaxText)

CallParse ==
    /\ call.fn = "none"
    /\ \E text \in Texts :
           call' = [fn |-> "parse", in |-> text, out |-> parse(text)]
    /\ UNCHANGED callFrame

ParseNext == CallParse

SpecParse == IgnoreInit /\ [][ParseNext]_vars

\* C26: parsing a pattern file terminates on every finite input: for every line,
\* including lines that contain a backslash escape such as `\?`, `\*`, `\\` or an
\* invalid escape such as `\a`, parse returns either a pattern or a parse error
\* (pattern_split always consumes input or stops).
C26_ParseTerminates ==
    call.fn = "parse" => call.out.st \in {"ok", "err"}

\* parse returns for the texts without a backslash
ParseWithoutBackslashReturns ==
    (call.fn = "parse" /\ 92 \notin Range(call.in)) => call.out.st = "ok"

\* parse returns for the texts in which a '/' follows every backslash and is not
\* the last character of its line
ParseOfEscapedSlashReturns ==
    (call.fn = "parse"
        /\ \A k \in 1..Len(call.in) :
              call.in[k] = 92 =>
                  /\ k + 1 < Len(call.in)
                  /\ call.in[k + 1] = 47
                  /\ call.in[k + 2] # 10) => call.out.st = "ok"

\* parse does not return for any of the lines `\?`, `\*`, `\\` and `\a`
EscapesHang ==
    (call.fn = "parse" /\ Len(call.in) = 2 /\ call.in[1] = 92
        /\ call.in[2] \in {63, 42, 92, 97}) => call.out.st = "hang"

\* parse was given the line `\?`
EscapeSeen == call.fn = "parse" /\ call.in = <<92, 63>> /\ call.out.st = "hang"

\* parse returned for a text with an escaped '/'
EscapedSlashSeen ==
    /\ call.fn = "parse" /\ call.in = <<97, 92, 47, 97>> /\ call.out.st = "ok"
    /\ call.out.v[1].parts[Len(call.out.v[1].parts)].name = <<Str(<<97, 47, 97>>)>>

(***************************************************************************)
(* A directory where the snapshot before had a file or a symlink           *)
(* (SpecBackup).                                                           *)
(***************************************************************************)
\* C27: when a name that was a regular file or a symlink in the previous snapshot
\* is a directory at scan time, the directory is scanned as though it had no prior
\* entry (the prior non-directory object is never loaded and parsed as a DirEntry)
\* and the scan succeeds: no file below the directory takes the fast path.
C27_PriorNonDirectoryDropped ==
    run.nondirs # {} =>
        /\ run.ok
        /\ \A p \in run.nondirs : \A q \in run.fast : ~StartsWith(q, p)

\* the scan of a directory that was a file of other bytes than the JSON of a
\* directory entry, or a symlink, in the snapshot before fails
PriorNonDirectoryFailsScan ==
    (run.nondirs # {} /\ ~run.ok) =>
        \E p \in run.nondirs : ~load_entry(objects, find_child(
              load_entry(objects, run.prior[1]).v, p[1])[1].id).ok

\* a scan failed at a directory that was a regular file in the snapshot before
PriorFileFailureSeen ==
    /\ run.n = 2 /\ ~run.ok /\ run.nondirs = {<<NameA>>}
    /\ find_child(load_entry(objects, run.prior[1]).v, NameA)[1].type = "file"

\* a scan returned a root hash after it took the fast path for a file with the
\* FileHash it read out of the object of a prior regular file
PriorFileParsedSeen ==
    /\ run.n = 2 /\ run.ok /\ run.nondirs = {<<NameA>>}
    /\ <<NameA, NameB>> \in run.fast

(***************************************************************************)
(* An object that is saved again (SpecStore).                              *)
(***************************************************************************)
\* open_object(id) succeeds in the store objs
Verifies(objs, id) == open_object(objs, id).ok

\* C28: an object that verifies (its bytes hash to its id) never stops verifying
\* because of a later save_object for the same id: at every intermediate point of
\* that rewrite, including when the process is killed during it, open_object(id)
\* still succeeds, so snapshots recorded earlier stay readable.
C28_VerifiedStaysVerified ==
    [][\A b \in Bodies :
          Verifies(objects, Digest(b)) => Verifies(objects', Digest(b))]_vars

\* an object that verifies keeps verifying over every step but the File::create of
\* a save_object for its id
VerifiedButForCreate ==
    [][\A b \in Bodies :
          (Verifies(objects, Digest(b))
              /\ ~\E w \in Writers : wr[w].pc = "create" /\ wr[w].id = Digest(b))
                 => Verifies(objects', Digest(b))]_vars

\* a caller is in the copy of a save_object for an id whose object verified before
\* the call and does not now
RewriteSeen ==
    \E w \in Writers :
        /\ wr[w].pc = "copy" /\ wr[w].off < Size(wr[w].src)
        /\ \A o \in Writers \ {w} : wr[o].pc = "done" /\ wr[o].id = wr[w].id
        /\ ~Verifies(objects, wr[w].id)

(***************************************************************************)
(* SpecSealed: backups into a store in which some object files cannot be   *)
(* created.                                                                *)
(***************************************************************************)
\* the ids of the objects of the regular files of the tree
FileIds(tree) ==
    {hash(FileOpen(tree[p].content)).id : p \in {q \in DOMAIN tree : tree[q].kind = "file"}}

\* from now on fs::File::create of the object file of id fails with
\* PermissionDenied in save_object: the id of a file of the tree, or of an object
\* the last backup wrote
Seal(id) ==
    /\ edits < MaxFaults
    /\ id \notin sealed
    /\ sealed' = sealed \cup {id}
    /\ edits' = edits + 1
    /\ UNCHANGED <<objects, wr, opened, histVars, fs, clock, run, target, rt, call>>

SealedNext ==
    \/ \E id \in FileIds(fs) \cup Range(run.written) : Seal(id)
    \/ \E order \in SomeOrders : Backup(order)

SpecSealed == FaultInit /\ [][SealedNext]_vars

\* a backup step whose scan was refused the writing of an object
MetRefusal == run'.n = run.n + 1 /\ \E m \in run'.met : m.op = "save_object"

\* C29: a node is omitted from a successful snapshot by the permission-denied rule
\* only when permission was denied reading the source node itself; a
\* permission-denied error raised while writing that node's object into the object
\* store makes the scan fail instead of returning a root hash that lacks the node.
C29_StoreRefusalFailsScan == [][MetRefusal => ~run'.ok]_vars

\* a refusal to write the object of the root directory makes the scan fail
RootRefusalFailsScan ==
    [][(MetRefusal /\ \E m \in run'.met : m.op = "save_object" /\ m.p = << >>)
           => ~run'.ok]_vars

\* a backup has recorded a snapshot although the store refused the object of a
\* regular file
RefusedFileSeen ==
    /\ run.n > 0 /\ run.ok
    /\ \E m \in run.met : m.op = "save_object" /\ run.tree[1][m.p].kind = "file"

\* a backup has recorded a snapshot although the store refused the object of a
\* directory
RefusedDirSeen ==
    /\ run.n > 0 /\ run.ok
    /\ \E m \in run.met : m.op = "save_object" /\ run.tree[1][m.p].kind = "dir"

\* a backup failed because the store refused the object of the root directory
RefusedRootSeen ==
    /\ run.n > 0 /\ ~run.ok
    /\ \E m \in run.met : m.op = "save_object" /\ m.p = << >>

(***************************************************************************)
(* SpecBroken: backups, objects that are lost from the store or cut short, *)
(* and a restore into a directory that holds something.                    *)
(***************************************************************************)
\* the object file of id is removed from the repository
Lose(id) ==
    /\ edits < MaxFaults
    /\ id \in DOMAIN objects
    /\ objects' = [i \in DOMAIN objects \ {id} |-> objects[i]]
    /\ edits' = edits + 1
    /\ UNCHANGED <<wr, opened, sealed, histVars, fs, clock, run, target, rt, call>>

\* the object file of id is cut to no bytes, as a save_object that stopped after
\* File::create leaves it
Break(id) ==
    /\ edits < MaxFaults
    /\ id \in DOMAIN objects /\ Digest(EmptyBytes) # id
    /\ objects' = [objects EXCEPT ![id] = EmptyBytes]
    /\ edits' = edits + 1
    /\ UNCHANGED <<wr, opened, sealed, histVars, fs, clock, run, target, rt, call>>

BrokenNext ==
    \/ Tick
    \/ \E order \in SomeOrders : Backup(order)
    \/ \E id \in DOMAIN objects : Lose(id)
    \/ \E id \in DOMAIN objects : Break(id)
    \/ \E start \in TargetTrees, overwrite \in BOOLEAN, remove \in BOOLEAN :
           Extend(start, overwrite, remove)

SpecBroken == BackupInit /\ [][BrokenNext]_vars

\* the path holds in after what it held in before: nothing, or the same node with
\* the same bytes and the same modification time
SamePath(before, after, p) ==
    IF p \in DOMAIN before THEN p \in DOMAIN after /\ after[p] = before[p]
    ELSE p \notin DOMAIN after

\* extend_file of the reference does not return before open_object: the target has
\* nothing at the path, or overwrite is set and what is there has another
\* modification time than the snapshot's
OpensObject(before, overwrite, e) ==
    \/ e.path \notin DOMAIN before
    \/ overwrite /\ before[e.path].modified # e.ref.attr.modified

\* the files of the snapshot whose open_object fails
UnopenableFiles == {e \in RestoredFiles : ~Verifies(objects, e.ref.id)}

\* C30: if open_object fails (EntryNotFound or BrokenObject) for a file during
\* extend, extend returns an error and the target path of that file is neither
\* created nor truncated: a pre-existing target file keeps its previous content.
C30_OpenFailureLeavesTarget ==
    [][(rt.n = 0 /\ rt'.n = 1) =>
          \A e \in UnopenableFiles :
              /\ SamePath(rt'.before, target', e.path)
              /\ OpensObject(rt'.before, rt'.overwrite, e) => ~rt'.ok]_vars

\* a restore with overwrite has failed at a file of the snapshot whose object is cut
\* short, and at one whose object is lost: the target held a file with another
\* modification time at the path, and holds it as it was
C30_Witness ==
    /\ rt.n = 1 /\ ~rt.ok /\ rt.overwrite
    /\ lastScanFile # << >>
    /\ \E e \in UnopenableFiles :
          /\ e.path \in DOMAIN rt.before /\ rt.before[e.path].kind = "file"
          /\ OpensObject(rt.before, rt.overwrite, e)
          /\ target[e.path] = rt.before[e.path]
          /\ \A o \in RefsOf(objects, << >>, last_scan(lastScanFile).v[1].id) \ {e} :
                 Verifies(objects, o.ref.id)

\* a restore has failed at a file whose object is lost, and the target has nothing
\* at its path, as before
AbsentStaysAbsent ==
    /\ rt.n = 1 /\ ~rt.ok
    /\ lastScanFile # << >>
    /\ \E e \in UnopenableFiles :
          /\ open_object(objects, e.ref.id).err = "EntryNotFound"
          /\ e.path \notin DOMAIN rt.before /\ e.path \notin DOMAIN target
          /\ Parent(e.path) \in DOMAIN target

====
